---------------------------- MODULE Spec2Model ----------------------------
(***************************************************************************)
(* A model of the hydrodynamics core of CMacIonize (HydroIntegrator.hpp):  *)
(* construction, initialize_hydro_variables, and do_hydro_step with its    *)
(* phases (gradients, Hancock prediction, parallel flux pass, radiation    *)
(* source term, conservative update, primitive recovery).                  *)
(*                                                                         *)
(* Numbers.  The code computes in double precision.  The model computes    *)
(* in exact rational arithmetic: a value is a pair <<n, d>> with d > 0 and *)
(* gcd(n, d) = 1.  Square roots are taken exactly and only of perfect      *)
(* squares; the inputs are chosen so that every root the model takes is    *)
(* one.  DBL_MIN is a positive value smaller than every other positive     *)
(* value of the model; adding it to a positive value leaves that value     *)
(* unchanged, as it does in double precision.  NaN is the value that is    *)
(* not a number: an operation on it gives it, a comparison with it is      *)
(* false.                                                                  *)
(*                                                                         *)
(* Function bodies.  A local of the code that is read more than once is a  *)
(* parameter of the operator that models the rest of the function body:    *)
(* the operator named after the function computes the first locals and     *)
(* passes them on.                                                         *)
(***************************************************************************)
EXTENDS Integers, Sequences, FiniteSets, TLC

(***************************************************************************)
(* Rational arithmetic.                                                    *)
(***************************************************************************)
IAbs(i) == IF i < 0 THEN -i ELSE i

RECURSIVE Gcd(_, _)
Gcd(a, b) == IF b = 0 THEN a ELSE Gcd(b, a % b)

\* n / d with the common factor g cancelled.
Cancel(n, d, g) == <<n \div g, d \div g>>

\* The fraction n / d, d > 0, in lowest terms.
Rat(n, d) ==
  IF n = 0 THEN <<0, 1>>
  ELSE IF d = 1 THEN <<n, 1>>
  ELSE Cancel(n, d, Gcd(IAbs(n), d))

R(i) == <<i, 1>>

Zero == <<0, 1>>

One == <<1, 1>>

Half == <<1, 2>>

NaN == <<0, 0>>

IsNaN(a) == a[2] = 0

\* The sum, over the least common denominator; g is the greatest common
\* divisor of the denominators.
SumOver(a, b, g) ==
  Rat(a[1] * (b[2] \div g) + b[1] * (a[2] \div g), (a[2] \div g) * b[2])

a (+) b ==
  IF a[2] = 0 \/ b[2] = 0
    THEN NaN
    ELSE IF a[2] = b[2]
      THEN Rat(a[1] + b[1], a[2])
      ELSE SumOver(a, b, Gcd(a[2], b[2]))

a (-) b == a (+) <<-b[1], b[2]>>

\* The product, the common factors g1 and g2 cancelled before the
\* multiplication.
ProductOver(a, b, g1, g2) ==
  <<(a[1] \div g1) * (b[1] \div g2), (a[2] \div g2) * (b[2] \div g1)>>

a (.) b ==
  IF a[2] = 0 \/ b[2] = 0
    THEN NaN
    ELSE IF a[1] = 0 \/ b[1] = 0
    THEN <<0, 1>>
    ELSE ProductOver(a, b, Gcd(IAbs(a[1]), b[2]), Gcd(IAbs(b[1]), a[2]))

\* 1 / b for b # 0, the sign in the numerator.
Reciprocal(b) == IF b[1] < 0 THEN <<-b[2], -b[1]>> ELSE <<b[2], b[1]>>

\* The quotient; a division by zero has no value.
a (/) b ==
  IF a[2] = 0 \/ b[2] = 0 THEN NaN
  ELSE IF b[1] = 0 THEN CHOOSE q \in {} : TRUE
  ELSE a (.) Reciprocal(b)

\* a < b over the least common denominator; g is the greatest common
\* divisor of the denominators.
LessOver(a, b, g) == a[1] * (b[2] \div g) < b[1] * (a[2] \div g)

a \prec b ==
  IF a[2] = 0 \/ b[2] = 0
    THEN FALSE
    ELSE IF a[2] = b[2]
      THEN a[1] < b[1]
      ELSE LessOver(a, b, Gcd(a[2], b[2]))

a \preceq b == a[2] # 0 /\ b[2] # 0 /\ ~(b \prec a)

RNeg(a) == <<-a[1], a[2]>>

RAbs(a) == <<IAbs(a[1]), a[2]>>

\* std::max and std::min: the first argument unless the comparison holds.
RMax(a, b) == IF a \prec b THEN b ELSE a

RMin(a, b) == IF b \prec a THEN b ELSE a

\* The integer square root of a perfect square; no value otherwise.
RECURSIVE ISqrtBetween(_, _, _)
ISqrtBetween(n, lo, hi) ==
  IF lo = hi
    THEN lo
    ELSE LET mid == (lo + hi + 1) \div 2
         IN  IF mid * mid <= n
               THEN ISqrtBetween(n, mid, hi)
               ELSE ISqrtBetween(n, lo, mid - 1)

ISqrt(n) ==
  CHOOSE r \in {IF n < 0 THEN -1
                ELSE ISqrtBetween(n, 0, IF n < 46340 THEN n ELSE 46340)} :
    r * r = n

\* std::sqrt, exact: defined on the squares of rationals only.
RSqrt(a) == <<ISqrt(a[1]), ISqrt(a[2])>>

(***************************************************************************)
(* CoordinateVector<>: three components, indexed 0..2 as in the code.      *)
(***************************************************************************)
Axes == 0..2

Vec(x, y, z) == (0 :> x) @@ (1 :> y) @@ (2 :> z)

VZero == Vec(Zero, Zero, Zero)

VAdd(u, v) == Vec(u[0] (+) v[0], u[1] (+) v[1], u[2] (+) v[2])

VSub(u, v) == Vec(u[0] (-) v[0], u[1] (-) v[1], u[2] (-) v[2])

VScale(s, v) == Vec(s (.) v[0], s (.) v[1], s (.) v[2])

dot_product(u, v) ==
  ((u[0] (.) v[0]) (+) (u[1] (.) v[1])) (+) (u[2] (.) v[2])

norm2(v) == dot_product(v, v)

norm(v) == RSqrt(norm2(v))

(***************************************************************************)
(* The state.                                                              *)
(***************************************************************************)
VARIABLES
  pc,     \* where the program is: before construction, between calls, or
          \* in one of the phases of do_hydro_step
  error,  \* the message of the cmac_error that ended the program, or "none"
  cfg,    \* the members of the HydroIntegrator
  grid,   \* the grid: the periodicity flags of its box, and what the
          \* GradientCalculator and the other subsystems do in this run
  cells,  \* the hydro and ionization variables of every cell of the grid
  step,   \* the locals of the running do_hydro_step
  hist    \* history: values on entry of the step, per-face contributions

vars == <<pc, error, cfg, grid, cells, step, hist>>

None == [none |-> TRUE]

(***************************************************************************)
(* HydroBoundaryConditionType and the constructor.                         *)
(***************************************************************************)
BoundaryTypeNames == {"periodic", "reflective", "inflow", "outflow", "bondi"}

get_boundary_type(type) ==
  CASE type = "periodic" -> "HYDRO_BOUNDARY_PERIODIC"
    [] type = "reflective" -> "HYDRO_BOUNDARY_REFLECTIVE"
    [] type = "inflow" -> "HYDRO_BOUNDARY_INFLOW"
    [] type = "outflow" -> "HYDRO_BOUNDARY_OUTFLOW"
    [] type = "bondi" -> "HYDRO_BOUNDARY_BONDI"
    [] OTHER -> "HYDRO_BOUNDARY_INVALID"

\* The boundaries array: 0 = x low, 1 = x high, 2 = y low, ... 5 = z high.
Faces == 0..5

\* The periodicity checks of axis i: the message of the first cmac_error
\* raised, "none" if none is.

PeriodicityError(boundaries, box_periodicity, i) ==
  IF boundaries[2 * i] = "HYDRO_BOUNDARY_PERIODIC"
    THEN IF boundaries[2 * i + 1] # "HYDRO_BOUNDARY_PERIODIC"
           THEN "Periodic boundaries only work if both boundaries are periodic!"
           ELSE IF ~box_periodicity[i]
                  THEN "Periodic boundaries only work if the grid box is also periodic!"
                  ELSE "none"
    ELSE "none"

BondiError(boundaries, bondi_profile) ==
  IF boundaries[0] = "HYDRO_BOUNDARY_BONDI" /\ bondi_profile = "nullptr"
    THEN "Bondi inflow boundaries only work if a Bondi profile is given."
    ELSE "none"

\* The body of the constructor: the checks in the order of the code.
ConstructorError(boundaries, box_periodicity, bondi_profile) ==
  LET ex == PeriodicityError(boundaries, box_periodicity, 0)
      ey == PeriodicityError(boundaries, box_periodicity, 1)
      ez == PeriodicityError(boundaries, box_periodicity, 2)
      eb == BondiError(boundaries, bondi_profile)
  IN  IF ex # "none" THEN ex
      ELSE IF ey # "none" THEN ey
      ELSE IF ez # "none" THEN ez
      ELSE eb

(***************************************************************************)
(* PhysicalConstants, in units of temperature and of particle number in    *)
(* which the Boltzmann constant and the proton mass are both 1.            *)
(***************************************************************************)
PHYSICALCONSTANT_BOLTZMANN == One

PHYSICALCONSTANT_PROTON_MASS == One

(***************************************************************************)
(* InternalHydroUnits: the three scales and the units derived from them.   *)
(* unit_SI_value is the SI value of one internal unit, and                 *)
(* unit_internal_value the internal value of one SI unit.                  *)
(***************************************************************************)
units_table(length, density, pressure, time, velocity, surface_area, volume, mass, momentum) ==
  [QUANTITY_LENGTH |-> length,
   QUANTITY_SURFACE_AREA |-> surface_area,
   QUANTITY_VOLUME |-> volume,
   QUANTITY_DENSITY |-> density,
   QUANTITY_PRESSURE |-> pressure,
   QUANTITY_TIME |-> time,
   QUANTITY_VELOCITY |-> velocity,
   QUANTITY_MASS |-> mass,
   QUANTITY_MOMENTUM |-> momentum,
   QUANTITY_ENERGY |-> momentum (.) velocity,
   QUANTITY_ACCELERATION |-> velocity (/) time]

units_of_mass(length, density, pressure, time, velocity, surface_area, volume, mass) ==
  units_table(length, density, pressure, time, velocity, surface_area,
              volume, mass, mass (.) velocity)

units_of_volume(length, density, pressure, time, velocity, surface_area, volume) ==
  units_of_mass(length, density, pressure, time, velocity, surface_area,
                volume, density (.) volume)

units_of_time(length, density, pressure, time) ==
  units_of_volume(length, density, pressure, time, length (/) time,
                  length (.) length, (length (.) length) (.) length)

InternalHydroUnits(length, density, pressure) ==
  units_of_time(length, density, pressure,
                length (.) RSqrt(density (/) pressure))

get_unit_SI_value(units, quantity) == units[quantity]

get_unit_internal_value(units, quantity) == One (/) units[quantity]

convert_to_internal_units(units, quantity, x) ==
  x (.) get_unit_internal_value(units, quantity)

convert_to_SI_units(units, quantity, x) ==
  x (.) get_unit_SI_value(units, quantity)

(***************************************************************************)
(* The members the constructor sets (the initializer list and the body).   *)
(* gm1_inv and u_conversion_factor are infinite for gamma = 1 and are read *)
(* for gamma > 1 only: they are "inf" here when gamma = 1.                 *)
(***************************************************************************)
HydroIntegrator(gamma, do_radiative_heating, do_radiative_cooling, riemann_solver_type, neutral_temperature, ionised_temperature, shock_temperature, max_velocity, boundary, bondi_profile) ==
  LET gm1 == gamma (-) One
      gm1_inv == IF gm1 = Zero THEN "inf" ELSE One (/) gm1
  IN  [gamma |-> gamma,
       gm1 |-> gm1,
       gm1_inv |-> gm1_inv,
       do_radiative_heating |-> do_radiative_heating,
       do_radiative_cooling |-> do_radiative_cooling,
       neutral_temperature |-> neutral_temperature,
       ionised_temperature |-> ionised_temperature,
       shock_temperature |-> shock_temperature,
       max_velocity |-> max_velocity,
       u_conversion_factor |->
         IF gm1 = Zero THEN "inf"
         ELSE (PHYSICALCONSTANT_BOLTZMANN (.) gm1_inv)
                (/) PHYSICALCONSTANT_PROTON_MASS,
       T_conversion_factor |->
         PHYSICALCONSTANT_PROTON_MASS (/) PHYSICALCONSTANT_BOLTZMANN,
       P_conversion_factor |->
         PHYSICALCONSTANT_BOLTZMANN (/) PHYSICALCONSTANT_PROTON_MASS,
       n_conversion_factor |-> One (/) PHYSICALCONSTANT_PROTON_MASS,
       hydro_units |-> InternalHydroUnits(One, One, One),
       solver |-> riemann_solver_type,
       boundaries |-> [f \in Faces |-> get_boundary_type(boundary[f])],
       bondi_profile |-> bondi_profile]

\* The default arguments of the constructor.
DefaultGamma == <<5, 3>>

DefaultNeutralTemperature == R(100)

DefaultIonisedTemperature == R(10000)

DefaultShockTemperature == R(30000)

(***************************************************************************)
(* The grid (DensityGrid, consumed through its interface): a row of        *)
(* NumCells equal cells along x that fills the box, at rest (the interface *)
(* velocity is zero, evolve and set_grid_velocity change nothing).  A cell *)
(* has two faces, x low and x high.  Beyond the last cell lies the first   *)
(* one when the box is periodic in x, and the end of the grid otherwise.   *)
(***************************************************************************)
NumCells == 3

Cells == 1..NumCells

grid_end == 0

BoxSides == Vec(R(2 * NumCells), One, One)

CellWidth == BoxSides[0] (/) R(NumCells)

get_volume(c) == (CellWidth (.) BoxSides[1]) (.) BoxSides[2]

get_cell_midpoint(c) == Vec((R(c) (-) Half) (.) CellWidth, Zero, Zero)

\* The sides of a cell: -1 is its x low face, 1 its x high face.
Sides == {-1, 1}

Neighbour(periodic, c, side) ==
  LET n == c + side
  IN  IF n \in Cells THEN n
      ELSE IF periodic THEN (IF n < 1 THEN NumCells ELSE 1)
      ELSE grid_end

\* One entry of get_neighbours: the neighbour, the midpoint of the face, its
\* outward normal, its surface area and the position of the neighbour
\* relative to the cell.
NeighbourEntry(periodic, c, side) ==
  [ngb |-> Neighbour(periodic, c, side),
   midpoint |-> VAdd(get_cell_midpoint(c),
                     Vec(R(side) (.) (Half (.) CellWidth), Zero, Zero)),
   normal |-> Vec(R(side), Zero, Zero),
   surface_area |-> BoxSides[1] (.) BoxSides[2],
   relative_position |-> Vec(R(side) (.) CellWidth, Zero, Zero)]

(***************************************************************************)
(* HydroVariables and IonizationVariables of a cell.  primitives,          *)
(* conserved and delta_conserved are indexed 0..4 as in the code: density, *)
(* three velocity components, pressure; mass, three momentum components,   *)
(* total energy.                                                           *)
(***************************************************************************)
Components == 0..4

Five(a, v, b) ==
  (0 :> a) @@ (1 :> v[0]) @@ (2 :> v[1]) @@ (3 :> v[2]) @@ (4 :> b)

FiveZero == Five(Zero, VZero, Zero)

\* The five gradients: of the density, of the three velocity components and
\* of the pressure.
Gradients(drho, dux, duy, duz, dP) ==
  (0 :> drho) @@ (1 :> dux) @@ (2 :> duy) @@ (3 :> duz) @@ (4 :> dP)

get_primitives_density(cell) == cell.primitives[0]

get_primitives_velocity(cell) ==
  Vec(cell.primitives[1], cell.primitives[2], cell.primitives[3])

get_primitives_pressure(cell) == cell.primitives[4]

get_conserved_mass(cell) == cell.conserved[0]

get_conserved_momentum(cell) ==
  Vec(cell.conserved[1], cell.conserved[2], cell.conserved[3])

get_conserved_total_energy(cell) == cell.conserved[4]

\* A cell as DensityGrid::initialize leaves it: the number density, the
\* temperature, the neutral fraction and the velocity are set (in SI units),
\* every other hydro variable is zero.
NewCell(number_density, temperature, neutral_fraction, velocity, acceleration) ==
  [primitives |-> Five(Zero, velocity, Zero),
   primitive_gradients |-> Gradients(VZero, VZero, VZero, VZero, VZero),
   conserved |-> FiveZero,
   delta_conserved |-> FiveZero,
   energy_term |-> Zero,
   energy_rate_term |-> Zero,
   gravitational_acceleration |-> acceleration,
   number_density |-> number_density,
   temperature |-> temperature,
   ionic_fraction |-> neutral_fraction,
   access |-> 0]

(***************************************************************************)
(* initialize_hydro_variables.                                             *)
(***************************************************************************)
RECURSIVE RSum(_, _)
RSum(f, n) == IF n = 0 THEN Zero ELSE RSum(f, n - 1) (+) f[n]

\* No velocity cap: the velocity is left as it is.
CapVelocityOff(velocity, max_velocity) == velocity

\* A velocity of the given length, scaled to max_velocity when it is longer.
cap_length(velocity, max_velocity, length) ==
  IF max_velocity \prec length
    THEN VScale(max_velocity (/) length, velocity)
    ELSE velocity

\* The velocity cap: a velocity longer than max_velocity is scaled to it.
CapVelocity(velocity, max_velocity) ==
  cap_length(velocity, max_velocity, norm(velocity))

\* The end of the first loop body: the variables are written.
initialise_written(h, cell, volume, density, velocity, pressure, mass, momentum) ==
  [cell EXCEPT
     !.primitives = Five(density, velocity, pressure),
     !.conserved =
       Five(mass, momentum,
            IF One \prec h.gamma
              THEN ((volume (.) pressure) (.) h.gm1_inv)
                     (+) (Half (.) dot_product(velocity, momentum))
              ELSE dot_product(velocity, momentum))]

\* The first loop body with the velocity stored as the momentum.
initialise_unweighted(h, cell, volume, density, velocity, pressure, mass) ==
  initialise_written(h, cell, volume, density, velocity, pressure, mass,
                     velocity)

\* The first loop body from the mass on.
initialise_conserved(h, cell, volume, density, velocity, pressure, mass) ==
  initialise_written(h, cell, volume, density, velocity, pressure, mass,
                     VScale(mass, velocity))

\* The first loop body from the ionised pressure on: pressure0 is the
\* pressure of neutral gas.
initialise_pressure(h, cell, volume, density, velocity, pressure0) ==
  initialise_conserved(h, cell, volume, density, velocity,
                       IF h.ionised_temperature \preceq cell.temperature
                         THEN pressure0 (.) R(2)
                         ELSE pressure0,
                       density (.) volume)

\* The first loop body from the velocity on.
initialise_primitives(h, cell, volume, density) ==
  initialise_pressure(
    h, cell, volume, density,
    CapVelocity(get_primitives_velocity(cell), h.max_velocity),
    (density (.) h.P_conversion_factor) (.) cell.temperature)

\* The first loop, for one cell: primitives and conserved variables in SI
\* units.
InitialiseCell(h, cell, volume) ==
  initialise_primitives(h, cell, volume,
                        cell.number_density (.) PHYSICALCONSTANT_PROTON_MASS)

\* The second loop, for one cell: everything rescaled to internal units.
RescaleCell(units, cell) ==
  LET conv(q, x) == convert_to_internal_units(units, q, x)
      velocity == Vec(conv("QUANTITY_VELOCITY", cell.primitives[1]),
                      conv("QUANTITY_VELOCITY", cell.primitives[2]),
                      conv("QUANTITY_VELOCITY", cell.primitives[3]))
      momentum == Vec(conv("QUANTITY_MOMENTUM", cell.conserved[1]),
                      conv("QUANTITY_MOMENTUM", cell.conserved[2]),
                      conv("QUANTITY_MOMENTUM", cell.conserved[3]))
  IN  [cell EXCEPT
         !.primitives =
           Five(conv("QUANTITY_DENSITY", cell.primitives[0]), velocity,
                conv("QUANTITY_PRESSURE", cell.primitives[4])),
         !.conserved =
           Five(conv("QUANTITY_MASS", cell.conserved[0]), momentum,
                conv("QUANTITY_ENERGY", cell.conserved[4]))]

\* The members of the integrator after initialisation.
RescaleIntegrator(h, units) ==
  LET velocity_unit_internal ==
        get_unit_internal_value(units, "QUANTITY_VELOCITY")
      velocity_unit_internal2 ==
        velocity_unit_internal (.) velocity_unit_internal
      velocity_unit_SI == get_unit_SI_value(units, "QUANTITY_VELOCITY")
      velocity_unit_SI2 == velocity_unit_SI (.) velocity_unit_SI
  IN  [h EXCEPT
         !.hydro_units = units,
         !.P_conversion_factor = @ (.) velocity_unit_internal2,
         !.u_conversion_factor =
           IF @ = "inf" THEN "inf" ELSE @ (.) velocity_unit_internal2,
         !.T_conversion_factor = @ (.) velocity_unit_SI2,
         !.n_conversion_factor =
           @ (.) get_unit_SI_value(units, "QUANTITY_DENSITY"),
         !.max_velocity =
           convert_to_internal_units(units, "QUANTITY_VELOCITY", @)]

AverageBoxSize(box_size) ==
  Half (.) ((box_size[0] (+) box_size[1]) (+) box_size[2])

\* The units of the run: the average box size, density and pressure.
InitialUnits(first) ==
  InternalHydroUnits(
    AverageBoxSize(BoxSides),
    RSum([c \in Cells |-> first[c].primitives[0]], NumCells) (/) R(NumCells),
    RSum([c \in Cells |-> first[c].primitives[4]], NumCells) (/) R(NumCells))

initialize_hydro_variables ==
  /\ pc = "constructed"
  /\ \E first \in {[c \in Cells |->
                      InitialiseCell(cfg, cells[c], get_volume(c))]} :
       /\ cfg' = RescaleIntegrator(cfg, InitialUnits(first))
       /\ cells' = [c \in Cells |-> RescaleCell(cfg'.hydro_units, first[c])]
  /\ pc' = "idle"
  /\ UNCHANGED <<error, grid, step, hist>>
(***************************************************************************)
(* DBL_MIN: positive and below every other positive value of the model.    *)
(* x + DBL_MIN is x for x > 0 (the sum rounds to x) and DBL_MIN for x = 0. *)
(***************************************************************************)
DBL_MIN == <<1, 1024>>

PlusDblMin(x) == IF x = Zero THEN DBL_MIN ELSE x

(***************************************************************************)
(* HydroFluxComputation: the slope limiter and the reconstruction.         *)
(***************************************************************************)
\* phiplus (phiminus): the largest (smallest) of the two values moved away
\* from the other by delta1 if that keeps its sign, and scaled towards zero
\* otherwise.
limit_extreme(phiext, moved, delta1) ==
  IF Zero \prec (moved (.) phiext)
    THEN moved
    ELSE (phiext (.) RAbs(phiext)) (/) PlusDblMin(RAbs(phiext) (+) delta1)

\* The last statement of limit: phimid.
limit_phimid(phimid0, phiL, phiR, phibar, delta1, delta2, phimin, phimax) ==
  IF phiL = phiR
    THEN phiL
    ELSE IF phiL \prec phiR
           THEN RMax(limit_extreme(phimin, phimin (-) delta1, delta1),
                     RMin(phibar (+) delta2, phimid0))
           ELSE RMin(limit_extreme(phimax, phimax (+) delta1, delta1),
                     RMax(phibar (-) delta2, phimid0))

\* A slope limiter that moves the reconstructed value only half of the way
\* to the limited one.
limit_relaxed(phimid0, phiL, phiR, dnrm_over_r) ==
  LET psi1 == Half
      psi2 == <<1, 4>>
  IN  Half (.) (phimid0 (+)
                limit_phimid(phimid0, phiL, phiR,
                             phiL (+) (dnrm_over_r (.) (phiR (-) phiL)),
                             psi1 (.) RAbs(phiL (-) phiR),
                             psi2 (.) RAbs(phiL (-) phiR),
                             RMin(phiL, phiR), RMax(phiL, phiR)))

limit(phimid0, phiL, phiR, dnrm_over_r) ==
  LET psi1 == Half
      psi2 == <<1, 4>>
  IN  limit_phimid(phimid0, phiL, phiR,
                   phiL (+) (dnrm_over_r (.) (phiR (-) phiL)),
                   psi1 (.) RAbs(phiL (-) phiR),
                   psi2 (.) RAbs(phiL (-) phiR),
                   RMin(phiL, phiR), RMax(phiL, phiR))

reconstruct_quantity(quantity0, gradient, distance, quantity1, fractional_distance) ==
  limit(quantity0 (+) dot_product(gradient, distance), quantity0, quantity1,
        fractional_distance)

(***************************************************************************)
(* limit_flux.                                                             *)
(***************************************************************************)
\* One conditional statement of limit_flux:
\* if (condition) fluxfac = std::min(fluxfac, bound).
limit_flux_min(fluxfac, condition, bound) ==
  IF condition THEN RMin(fluxfac, bound) ELSE fluxfac

\* A flux limiter that looks at the left cell only.
limit_flux_left(mflux, pflux2, Eflux, mLfluxlimit, pL2fluxlimit, ELfluxlimit, mRfluxlimit, pR2fluxlimit, ERfluxlimit, high_momentum_L, high_momentum_R, isothermal) ==
  limit_flux_min(
    limit_flux_min(
      IF mLfluxlimit \prec mflux THEN mLfluxlimit (/) mflux ELSE One,
      ~isothermal /\ ELfluxlimit \prec Eflux, ELfluxlimit (/) Eflux),
    high_momentum_L /\ pL2fluxlimit \prec pflux2,
    RSqrt(pL2fluxlimit (/) pflux2))

\* limit_flux without the sign of the flux that leaves the right cell.
limit_flux_unsigned(mflux, pflux2, Eflux, mLfluxlimit, pL2fluxlimit, ELfluxlimit, mRfluxlimit, pR2fluxlimit, ERfluxlimit, high_momentum_L, high_momentum_R, isothermal) ==
  limit_flux_min(
    limit_flux_min(
      limit_flux_min(
        limit_flux_min(
          limit_flux_min(
            IF mLfluxlimit \prec mflux THEN mLfluxlimit (/) mflux ELSE One,
            mRfluxlimit \prec RNeg(mflux), mRfluxlimit (/) mflux),
          ~isothermal /\ ELfluxlimit \prec Eflux, ELfluxlimit (/) Eflux),
        ~isothermal /\ ERfluxlimit \prec RNeg(Eflux),
        RNeg(ERfluxlimit) (/) Eflux),
      high_momentum_L /\ pL2fluxlimit \prec pflux2,
      RSqrt(pL2fluxlimit (/) pflux2)),
    high_momentum_R /\ pR2fluxlimit \prec pflux2,
    RSqrt(pR2fluxlimit (/) pflux2))

\* limit_flux: fluxfac after the first statement, then after each of the
\* five conditional minima, innermost first.
limit_flux(mflux, pflux2, Eflux, mLfluxlimit, pL2fluxlimit, ELfluxlimit, mRfluxlimit, pR2fluxlimit, ERfluxlimit, high_momentum_L, high_momentum_R, isothermal) ==
  limit_flux_min(
    limit_flux_min(
      limit_flux_min(
        limit_flux_min(
          limit_flux_min(
            IF mLfluxlimit \prec mflux THEN mLfluxlimit (/) mflux ELSE One,
            mRfluxlimit \prec RNeg(mflux), RNeg(mRfluxlimit) (/) mflux),
          ~isothermal /\ ELfluxlimit \prec Eflux, ELfluxlimit (/) Eflux),
        ~isothermal /\ ERfluxlimit \prec RNeg(Eflux),
        RNeg(ERfluxlimit) (/) Eflux),
      high_momentum_L /\ pL2fluxlimit \prec pflux2,
      RSqrt(pL2fluxlimit (/) pflux2)),
    high_momentum_R /\ pR2fluxlimit \prec pflux2,
    RSqrt(pR2fluxlimit (/) pflux2))

FLUX_LIMITER == 2

(***************************************************************************)
(* The Riemann solver (RiemannSolver interface).  The solver of the model  *)
(* is a Rusanov solver with a fixed signal speed: the flux is the mean of  *)
(* the physical fluxes of the two states along the normal, in the frame of *)
(* the interface, minus a diffusive term.  Exchanging the two states and   *)
(* reversing the normal reverses the flux.  For gamma = 1 the solver does  *)
(* not set the energy flux: the caller's variable, which the caller does   *)
(* not initialise, keeps the value it held, `unset`.                       *)
(***************************************************************************)
SignalSpeed == One

\* The energy density of a state.
EnergyDensity(gamma, rho, u, P) ==
  (P (/) (gamma (-) One)) (+) (Half (.) (rho (.) norm2(u)))

\* The flux of the solver: vL and vR are the velocities along the normal in
\* the frame of the interface, momL and momR the momentum densities, eL and
\* eR the energy densities of the two states.
solver_flux(gamma, rhoL, PL, rhoR, PR, normal, vL, vR, momL, momR, eL, eR, unset) ==
  [mflux |-> (Half (.) ((rhoL (.) vL) (+) (rhoR (.) vR)))
               (-) ((Half (.) SignalSpeed) (.) (rhoR (-) rhoL)),
   pflux |-> VSub(VAdd(VScale(Half, VAdd(VScale(vL, momL), VScale(vR, momR))),
                       VScale(Half (.) (PL (+) PR), normal)),
                  VScale(Half (.) SignalSpeed, VSub(momR, momL))),
   Eflux |-> IF gamma = One
               THEN unset
               ELSE (Half (.) (((eL (+) PL) (.) vL) (+) ((eR (+) PR) (.) vR)))
                      (-) ((Half (.) SignalSpeed) (.) (eR (-) eL))]

solve_for_flux(gamma, rhoL, uL, PL, rhoR, uR, PR, normal, vframe, unset) ==
  solver_flux(gamma, rhoL, PL, rhoR, PR, normal,
              dot_product(VSub(uL, vframe), normal),
              dot_product(VSub(uR, vframe), normal),
              VScale(rhoL, uL), VScale(rhoR, uR),
              EnergyDensity(gamma, rhoL, uL, PL),
              EnergyDensity(gamma, rhoR, uR, PR), unset)

(***************************************************************************)
(* compute_fluxes: reconstruction on both sides, the SAFE_HYDRO clamps,    *)
(* the solver, and the integration over the face and the time step.        *)
(***************************************************************************)
\* The flux of the solver integrated over the face and the time step.
integrated_flux(flux, tfac) ==
  [mflux |-> flux.mflux (.) tfac,
   pflux |-> VScale(tfac, flux.pflux),
   Eflux |-> flux.Eflux (.) tfac]

compute_fluxes(rhoL, uL, PL, rhoR, uR, PR, gradrhoL, graduL, gradPL, gradrhoR, graduR, gradPR, dL, dR, dL_over_r, dR_over_r, gamma, normal, vframe, surface_area, timestep, unset) ==
  integrated_flux(
    solve_for_flux(
      gamma,
      RMax(reconstruct_quantity(rhoL, gradrhoL, dL, rhoR, dL_over_r), Zero),
      Vec(reconstruct_quantity(uL[0], graduL[0], dL, uR[0], dL_over_r),
          reconstruct_quantity(uL[1], graduL[1], dL, uR[1], dL_over_r),
          reconstruct_quantity(uL[2], graduL[2], dL, uR[2], dL_over_r)),
      RMax(reconstruct_quantity(PL, gradPL, dL, PR, dL_over_r), Zero),
      RMax(reconstruct_quantity(rhoR, gradrhoR, dR, rhoL, dR_over_r), Zero),
      Vec(reconstruct_quantity(uR[0], graduR[0], dR, uL[0], dR_over_r),
          reconstruct_quantity(uR[1], graduR[1], dR, uL[1], dR_over_r),
          reconstruct_quantity(uR[2], graduR[2], dR, uL[2], dR_over_r)),
      RMax(reconstruct_quantity(PR, gradPR, dR, PL, dR_over_r), Zero),
      normal, vframe, unset),
    surface_area (.) timestep)
(***************************************************************************)
(* HydroFluxComputation::operator(): the right state of a face.            *)
(***************************************************************************)
\* The Bondi profile (BondiProfile interface): density, velocity and
\* pressure at a position.  The profile of the model is uniform and at rest.
get_hydrodynamic_variables(position) ==
  [rho |-> One, u |-> VZero, P |-> One]

\* The state of a cell as the flux computation reads it.
LeftState(cell) ==
  [rho |-> get_primitives_density(cell),
   u |-> get_primitives_velocity(cell),
   P |-> get_primitives_pressure(cell),
   gradrho |-> cell.primitive_gradients[0],
   gradu |-> Vec(cell.primitive_gradients[1], cell.primitive_gradients[2],
                 cell.primitive_gradients[3]),
   gradP |-> cell.primitive_gradients[4]]

\* Is the face with this normal on the low (high) boundary of axis i, and
\* is that boundary of the given type?
BoundaryIs(boundaries, normal, i, type) ==
  \/ normal[i] \prec Zero /\ boundaries[2 * i] = type
  \/ Zero \prec normal[i] /\ boundaries[2 * i + 1] = type

\* A reflective boundary that also negates the normal derivative of the
\* normal velocity component.
ApplyBoundaryMirrorAll(boundaries, normal, posR, i, st) ==
  IF BoundaryIs(boundaries, normal, i, "HYDRO_BOUNDARY_REFLECTIVE")
    THEN [st EXCEPT !.u[i] = RNeg(@),
                    !.gradrho[i] = RNeg(@),
                    !.gradu[0][i] = RNeg(@),
                    !.gradu[1][i] = RNeg(@),
                    !.gradu[2][i] = RNeg(@),
                    !.gradP[i] = RNeg(@)]
  ELSE IF BoundaryIs(boundaries, normal, i, "HYDRO_BOUNDARY_BONDI")
    THEN LET b == get_hydrodynamic_variables(posR)
         IN  [rho |-> b.rho, u |-> b.u, P |-> b.P,
              gradrho |-> VZero,
              gradu |-> Vec(VZero, VZero, VZero),
              gradP |-> VZero]
  ELSE IF BoundaryIs(boundaries, normal, i, "HYDRO_BOUNDARY_OUTFLOW")
    THEN IF (st.u[i] (.) normal[i]) \prec Zero
           THEN [st EXCEPT !.u[i] = RNeg(@), !.gradu[i] = VZero]
           ELSE st
  ELSE st

\* An outflow boundary that mirrors the velocity whatever its direction.
ApplyBoundaryOutflowAlways(boundaries, normal, posR, i, st) ==
  IF BoundaryIs(boundaries, normal, i, "HYDRO_BOUNDARY_REFLECTIVE")
    THEN [st EXCEPT !.u[i] = RNeg(@),
                    !.gradrho[i] = RNeg(@),
                    !.gradu[(i + 1) % 3][i] = RNeg(@),
                    !.gradu[(i + 2) % 3][i] = RNeg(@),
                    !.gradP[i] = RNeg(@)]
  ELSE IF BoundaryIs(boundaries, normal, i, "HYDRO_BOUNDARY_BONDI")
    THEN LET b == get_hydrodynamic_variables(posR)
         IN  [rho |-> b.rho, u |-> b.u, P |-> b.P,
              gradrho |-> VZero,
              gradu |-> Vec(VZero, VZero, VZero),
              gradP |-> VZero]
  ELSE IF BoundaryIs(boundaries, normal, i, "HYDRO_BOUNDARY_OUTFLOW")
    THEN [st EXCEPT !.u[i] = RNeg(@), !.gradu[i] = VZero]
  ELSE st

\* An inflow boundary treated as a reflective one.
ApplyBoundaryInflowReflective(boundaries, normal, posR, i, st) ==
  IF \/ BoundaryIs(boundaries, normal, i, "HYDRO_BOUNDARY_REFLECTIVE")
     \/ BoundaryIs(boundaries, normal, i, "HYDRO_BOUNDARY_INFLOW")
    THEN [st EXCEPT !.u[i] = RNeg(@),
                    !.gradrho[i] = RNeg(@),
                    !.gradu[(i + 1) % 3][i] = RNeg(@),
                    !.gradu[(i + 2) % 3][i] = RNeg(@),
                    !.gradP[i] = RNeg(@)]
  ELSE IF BoundaryIs(boundaries, normal, i, "HYDRO_BOUNDARY_BONDI")
    THEN LET b == get_hydrodynamic_variables(posR)
         IN  [rho |-> b.rho, u |-> b.u, P |-> b.P,
              gradrho |-> VZero,
              gradu |-> Vec(VZero, VZero, VZero),
              gradP |-> VZero]
  ELSE IF BoundaryIs(boundaries, normal, i, "HYDRO_BOUNDARY_OUTFLOW")
    THEN IF (st.u[i] (.) normal[i]) \prec Zero
           THEN [st EXCEPT !.u[i] = RNeg(@), !.gradu[i] = VZero]
           ELSE st
  ELSE st

\* One iteration of the loop over the axes that applies the boundary
\* conditions to the copy of the left state.
ApplyBoundary(boundaries, normal, posR, i, st) ==
  IF BoundaryIs(boundaries, normal, i, "HYDRO_BOUNDARY_REFLECTIVE")
    THEN [st EXCEPT !.u[i] = RNeg(@),
                    !.gradrho[i] = RNeg(@),
                    !.gradu[(i + 1) % 3][i] = RNeg(@),
                    !.gradu[(i + 2) % 3][i] = RNeg(@),
                    !.gradP[i] = RNeg(@)]
  ELSE IF BoundaryIs(boundaries, normal, i, "HYDRO_BOUNDARY_BONDI")
    THEN LET b == get_hydrodynamic_variables(posR)
         IN  [rho |-> b.rho, u |-> b.u, P |-> b.P,
              gradrho |-> VZero,
              gradu |-> Vec(VZero, VZero, VZero),
              gradP |-> VZero]
  ELSE IF BoundaryIs(boundaries, normal, i, "HYDRO_BOUNDARY_OUTFLOW")
    THEN IF (st.u[i] (.) normal[i]) \prec Zero
           THEN [st EXCEPT !.u[i] = RNeg(@), !.gradu[i] = VZero]
           ELSE st
  ELSE st

\* The loop over the three axes.
BoundaryState(boundaries, normal, posR, left) ==
  ApplyBoundary(boundaries, normal, posR, 2,
    ApplyBoundary(boundaries, normal, posR, 1,
      ApplyBoundary(boundaries, normal, posR, 0, left)))

\* The flux limits of a cell: the mass and energy limits, the squared mass
\* limit and the squared momentum.
FluxLimits(cell) ==
  [mfluxlimit |-> R(FLUX_LIMITER) (.) get_conserved_mass(cell),
   m2 |-> (R(FLUX_LIMITER) (.) get_conserved_mass(cell))
            (.) (R(FLUX_LIMITER) (.) get_conserved_mass(cell)),
   p2 |-> norm2(get_conserved_momentum(cell)),
   Efluxlimit |-> R(FLUX_LIMITER) (.) get_conserved_total_energy(cell)]

\* The right side of a face without a neighbouring cell: the right state is
\* the copy of the left state with the boundary conditions applied, the
\* right flux limits are the copies of the left ones.
BoundaryFace(boundaries, normal, posR, left, limL) ==
  [state |-> BoundaryState(boundaries, normal, posR, left), lim |-> limL]

\* The right side of a face: the state and the flux limits of the
\* neighbouring cell, or those of the boundary.
RightSide(h, cs, ngb, normal, posR, left, limL) ==
  IF ngb # grid_end
    THEN [state |-> LeftState(cs[ngb]), lim |-> FluxLimits(cs[ngb])]
    ELSE BoundaryFace(h.boundaries, normal, posR, left, limL)

\* The fluxes scaled with the factor limit_flux returned, as added to the
\* delta_conserved of the left cell.
scaled_flux(flux, pflux2, pL2fluxlimit, pR2fluxlimit, high_momentum_L, high_momentum_R, fluxfac) ==
  [pflux2 |-> pflux2,
   pL2fluxlimit |-> pL2fluxlimit,
   pR2fluxlimit |-> pR2fluxlimit,
   high_momentum_L |-> high_momentum_L,
   high_momentum_R |-> high_momentum_R,
   fluxfac |-> fluxfac,
   delta |-> Five(flux.mflux (.) fluxfac, VScale(fluxfac, flux.pflux),
                  flux.Eflux (.) fluxfac)]

\* The call of limit_flux with its arguments evaluated.
call_limit_flux(gamma, flux, limL, limR, pflux2, pL2fluxlimit, pR2fluxlimit, high_momentum_L, high_momentum_R) ==
  scaled_flux(flux, pflux2, pL2fluxlimit, pR2fluxlimit, high_momentum_L,
              high_momentum_R,
              limit_flux(flux.mflux, pflux2, flux.Eflux, limL.mfluxlimit,
                         pL2fluxlimit, limL.Efluxlimit, limR.mfluxlimit,
                         pR2fluxlimit, limR.Efluxlimit, high_momentum_L,
                         high_momentum_R, gamma = One))

\* The call of limit_flux on the flux through a face and the scaling of the
\* flux with the factor it returns.
LimitedFlux(gamma, flux, limL, limR, rhoL, PL, rhoR, PR) ==
  call_limit_flux(gamma, flux, limL, limR, norm2(flux.pflux),
                  R(FLUX_LIMITER * FLUX_LIMITER) (.) limL.p2,
                  R(FLUX_LIMITER * FLUX_LIMITER) (.) limR.p2,
                  ((gamma (.) limL.m2) (.) PL) \prec (limL.p2 (.) rhoL),
                  ((gamma (.) limR.m2) (.) PR) \prec (limR.p2 (.) rhoR))

(***************************************************************************)
(* One iteration of the loop over the neighbours of cell c: the limited    *)
(* flux through one face, as added to the delta_conserved of c.  Each      *)
(* operator below is the rest of the iteration after the values in its     *)
(* parameters have been computed.                                          *)
(***************************************************************************)
\* The accumulation: what the iteration adds, with what it computed.
face_accumulate(ngb, flux, limited) ==
  [ngb |-> ngb,
   raw |-> Five(flux.mflux, flux.pflux, flux.Eflux),
   fluxfac |-> limited.fluxfac,
   delta |-> limited.delta]

\* From the limiter on: flux is what compute_fluxes returned.
face_limit(h, ngb, left, limL, right, flux) ==
  face_accumulate(ngb, flux,
                  LimitedFlux(h.gamma, flux, limL, right.lim, left.rho,
                              left.P, right.state.rho, right.state.P))

\* From the flux calculation on: dL and dR are the vectors from the two
\* positions to the midpoint of the face, rinv the inverse of the distance
\* between the positions.
face_compute(h, entry, left, limL, right, dL, dR, rinv, timestep, unset) ==
  face_limit(h, entry.ngb, left, limL, right,
             compute_fluxes(left.rho, left.u, left.P, right.state.rho,
                            right.state.u, right.state.P, left.gradrho,
                            left.gradu, left.gradP, right.state.gradrho,
                            right.state.gradu, right.state.gradP, dL, dR,
                            norm(dL) (.) rinv, norm(dR) (.) rinv, h.gamma,
                            entry.normal,
                            IF entry.ngb # grid_end
                              THEN VScale(get_unit_internal_value(
                                            h.hydro_units,
                                            "QUANTITY_VELOCITY"), VZero)
                              ELSE VZero,
                            convert_to_internal_units(
                              h.hydro_units, "QUANTITY_SURFACE_AREA",
                              entry.surface_area),
                            timestep, unset))

\* From the right state on: posL and posR are the positions of the cell and
\* of its neighbour, left and limL the state and the flux limits of the cell.
face_right(h, cs, entry, posL, posR, left, limL, timestep, unset) ==
  face_compute(h, entry, left, limL,
               RightSide(h, cs, entry.ngb, entry.normal, posR, left, limL),
               VScale(get_unit_internal_value(h.hydro_units,
                                              "QUANTITY_LENGTH"),
                      VSub(entry.midpoint, posL)),
               VScale(get_unit_internal_value(h.hydro_units,
                                              "QUANTITY_LENGTH"),
                      VSub(entry.midpoint, posR)),
               get_unit_SI_value(h.hydro_units, "QUANTITY_LENGTH")
                 (/) norm(VSub(posL, posR)),
               timestep, unset)

\* From the neighbour on: entry is the entry of get_neighbours.
face_neighbour(h, cs, c, entry, posL, timestep, unset) ==
  face_right(h, cs, entry, posL, VAdd(posL, entry.relative_position),
             LeftState(cs[c]), FluxLimits(cs[c]), timestep, unset)

FaceFlux(h, periodic, cs, c, side, timestep, unset) ==
  face_neighbour(h, cs, c, NeighbourEntry(periodic, c, side),
                 get_cell_midpoint(c), timestep, unset)

FiveAdd(a, b) ==
  (0 :> (a[0] (+) b[0])) @@ (1 :> (a[1] (+) b[1])) @@ (2 :> (a[2] (+) b[2]))
    @@ (3 :> (a[3] (+) b[3])) @@ (4 :> (a[4] (+) b[4]))

\* The loop over the neighbours of cell c: what it adds for the low and
\* for the high face of c, the low face first.  unset[side] is what the
\* variable Eflux of that iteration holds when it is declared.
FacesOf(h, periodic, cs, c, timestep, unset) ==
  (-1 :> FaceFlux(h, periodic, cs, c, -1, timestep, unset[-1]))
    @@ (1 :> FaceFlux(h, periodic, cs, c, 1, timestep, unset[1]))

\* A flux computation that scatters: what it adds to cell c for a face it
\* also takes from the neighbour behind that face.
ScatterTo(cs, face) ==
  IF face.ngb = grid_end
    THEN cs
    ELSE [cs EXCEPT
            ![face.ngb].delta_conserved =
              FiveAdd(@, Five(RNeg(face.delta[0]),
                              Vec(RNeg(face.delta[1]), RNeg(face.delta[2]),
                                  RNeg(face.delta[3])),
                              RNeg(face.delta[4])))]

HydroFluxScatter(cs, c, faces) ==
  ScatterTo(ScatterTo([cs EXCEPT
                         ![c].access = @ + 1,
                         ![c].delta_conserved =
                           FiveAdd(FiveAdd(@, faces[-1].delta),
                                   faces[1].delta)],
                      faces[-1]),
            faces[1])

\* A flux computation that does not register its access.
HydroFluxUnregistered(cs, c, faces) ==
  [cs EXCEPT
     ![c].delta_conserved =
       FiveAdd(FiveAdd(@, faces[-1].delta), faces[1].delta)]

\* The cells after operator() for cell c: cell c alone is written.
HydroFluxComputation(cs, c, faces) ==
  [cs EXCEPT
     ![c].access = @ + 1,
     ![c].delta_conserved =
       FiveAdd(FiveAdd(@, faces[-1].delta), faces[1].delta)]

(***************************************************************************)
(* The gradient pass (GradientCalculator, consumed through its interface). *)
(* The calculator of the model returns one of two gradient fields: central *)
(* differences along x between the two neighbours of the cell, a boundary  *)
(* standing in with the state the boundary condition gives, or, with every *)
(* slope limited away, zero gradients.                                     *)
(***************************************************************************)
GradientSchemes == {"central", "flat"}

\* The state on the other side of a face of cell c: that of the neighbour,
\* or the one the boundary condition gives.
gradient_neighbour(h, cs, c, entry) ==
  IF entry.ngb # grid_end
    THEN LeftState(cs[entry.ngb])
    ELSE BoundaryState(h.boundaries, entry.normal,
                       VAdd(get_cell_midpoint(c), entry.relative_position),
                       LeftState(cs[c]))

GradientNeighbour(h, periodic, cs, c, side) ==
  gradient_neighbour(h, cs, c, NeighbourEntry(periodic, c, side))

GradientSlope(scheme, a, b, width) ==
  IF scheme = "flat" THEN VZero ELSE Vec((b (-) a) (/) width, Zero, Zero)

\* The gradients of a cell between the states lo and hi on its two sides.
gradient_between(cell, scheme, lo, hi, width) ==
  [cell EXCEPT
     !.primitive_gradients =
       Gradients(GradientSlope(scheme, lo.rho, hi.rho, width),
                 GradientSlope(scheme, lo.u[0], hi.u[0], width),
                 GradientSlope(scheme, lo.u[1], hi.u[1], width),
                 GradientSlope(scheme, lo.u[2], hi.u[2], width),
                 GradientSlope(scheme, lo.P, hi.P, width))]

GradientComputation(h, periodic, cs, c, scheme) ==
  gradient_between(cs[c], scheme, GradientNeighbour(h, periodic, cs, c, -1),
                   GradientNeighbour(h, periodic, cs, c, 1),
                   (R(2) (.) CellWidth)
                     (.) get_unit_internal_value(h.hydro_units,
                                                 "QUANTITY_LENGTH"))

(***************************************************************************)
(* do_hydro_step, loop by loop; each operator is the body of one loop for  *)
(* one cell.                                                               *)
(***************************************************************************)
\* The gravitational acceleration of a cell in internal units.
InternalAcceleration(h, cell) ==
  Vec(convert_to_internal_units(h.hydro_units, "QUANTITY_ACCELERATION",
                                cell.gravitational_acceleration[0]),
      convert_to_internal_units(h.hydro_units, "QUANTITY_ACCELERATION",
                                cell.gravitational_acceleration[1]),
      convert_to_internal_units(h.hydro_units, "QUANTITY_ACCELERATION",
                                cell.gravitational_acceleration[2]))

\* The primitive variables half a time step later: a is the acceleration,
\* drho and dP are the gradients of the density and the pressure, divv is
\* the divergence of the velocity.
predict_primitives(gamma, halfdt, rho, u, P, a, drho, divv, dP) ==
  Five(rho (-) (halfdt (.) ((rho (.) divv) (+) dot_product(u, drho))),
       VSub(u, VScale(halfdt,
                      VSub(VAdd(VScale(divv, u), VScale(One (/) rho, dP)),
                           a))),
       P (-) (halfdt (.) (((gamma (.) P) (.) divv) (+) dot_product(u, dP))))

\* The second order time prediction step.
PredictCell(h, cell, halfdt) ==
  IF Zero \prec get_primitives_density(cell)
    THEN [cell EXCEPT
            !.primitives =
              predict_primitives(
                h.gamma, halfdt, get_primitives_density(cell),
                get_primitives_velocity(cell), get_primitives_pressure(cell),
                InternalAcceleration(h, cell), cell.primitive_gradients[0],
                (cell.primitive_gradients[1][0]
                   (+) cell.primitive_gradients[2][1])
                  (+) cell.primitive_gradients[3][2],
                cell.primitive_gradients[4])]
    ELSE cell

(***************************************************************************)
(* The radiation loop (run when heating or cooling is enabled), for one    *)
(* cell.  Each operator is the rest of the loop body after the values in   *)
(* its parameters have been computed.                                      *)
(***************************************************************************)
\* if (_do_radiative_heating && dE > 0.) delta_conserved(4) -= dE
radiative_heating(h, delta_energy, dE) ==
  IF h.do_radiative_heating /\ Zero \prec dE
    THEN delta_energy (-) dE
    ELSE delta_energy

\* Cooling without the limit on the change in energy.
radiative_cooling_unlimited(h, delta_energy, dE, dEmin) ==
  IF h.do_radiative_cooling /\ dE \prec Zero
    THEN delta_energy (-) (Half (.) dE)
    ELSE delta_energy

\* if (_do_radiative_cooling && dE < 0.): dE is raised to at least dEmin,
\* then delta_conserved(4) -= 0.5 * dE
radiative_cooling(h, delta_energy, dE, dEmin) ==
  IF h.do_radiative_cooling /\ dE \prec Zero
    THEN delta_energy (-) (Half (.) RMax(dE, dEmin))
    ELSE delta_energy

\* A cell that is not shock heated: dE is the energy that brings the gas to
\* the temperature Tgas.
radiation_source(h, cell, Tgas, ufac, dE) ==
  [cell EXCEPT
     !.temperature = Tgas,
     !.delta_conserved[4] =
       radiative_cooling(
         h, radiative_heating(h, @, dE), dE,
         ((R(2) (.) ufac)
            (.) (h.neutral_temperature (-) h.ionised_temperature))
           (.) get_conserved_mass(cell))]

\* A radiation loop that heats and cools shock heated cells too.
radiation_gas_unchecked(h, cell, Tgas, Tgas_old, ufac) ==
  radiation_source(
    h, cell, Tgas, ufac,
    get_conserved_mass(cell)
      (.) ((ufac (.) Tgas)
             (-) ((get_primitives_pressure(cell) (.) h.gm1_inv)
                    (/) PlusDblMin(get_primitives_density(cell)))))

\* A cell with gas, for gamma > 1: Tgas_old is the temperature of the gas.
radiation_gas(h, cell, Tgas, Tgas_old, ufac) ==
  IF Zero \prec cell.energy_term \/ h.shock_temperature \prec Tgas_old
    THEN [cell EXCEPT !.temperature = Tgas_old]
    ELSE radiation_source(
           h, cell, Tgas, ufac,
           get_conserved_mass(cell)
             (.) ((ufac (.) Tgas)
                    (-) ((get_primitives_pressure(cell) (.) h.gm1_inv)
                           (/) PlusDblMin(get_primitives_density(cell)))))

\* Tgas is the temperature the ionisation state of the cell asks for.
radiation_temperature(h, cell, Tgas) ==
  IF One \prec h.gamma /\ Zero \prec get_primitives_density(cell)
    THEN radiation_gas(
           h, cell, Tgas,
           (((Half (.) (One (+) cell.ionic_fraction))
               (.) h.T_conversion_factor) (.) get_primitives_pressure(cell))
             (/) PlusDblMin(get_primitives_density(cell)),
           (R(2) (.) h.u_conversion_factor) (/) (One (+) cell.ionic_fraction))
    ELSE [cell EXCEPT !.temperature = Tgas]

RadiationCell(h, cell) ==
  radiation_temperature(
    h, cell,
    (h.ionised_temperature (.) (One (-) cell.ionic_fraction))
      (+) (h.neutral_temperature (.) cell.ionic_fraction))

\* The mass update without SAFE_HYDRO: the mass is left as it is.
ClampMassOff(mass) == mass

\* SAFE_HYDRO: the conserved mass is never negative.
ClampMass(mass) == RMax(mass, Zero)

\* SAFE_HYDRO: the total energy is never negative.
ClampEnergy(total_energy) == RMax(total_energy, Zero)

\* SAFE_HYDRO: for gamma > 1 a cell without energy has no momentum.
ResetMomentum(gamma, total_energy, momentum) ==
  IF One \prec gamma /\ total_energy = Zero THEN VZero ELSE momentum

\* The energy terms with the energy buffer forgotten: the rate alone.
AddEnergyRateOnly(total_energy, internal_timestep, energy_rate_term, energy_term) ==
  total_energy (+) (internal_timestep (.) energy_rate_term)

\* The energy terms other subsystems left in the buffers of the cell.
AddEnergyTerms(total_energy, internal_timestep, energy_rate_term, energy_term) ==
  (total_energy (+) (internal_timestep (.) energy_rate_term)) (+) energy_term

\* The end of the update: the conserved variables are written and the
\* buffers are reset.
update_written(h, cell, mass, momentum, total_energy) ==
  [cell EXCEPT
     !.conserved = Five(mass, ResetMomentum(h.gamma, total_energy, momentum),
                        total_energy),
     !.energy_rate_term = Zero,
     !.energy_term = Zero,
     !.delta_conserved = FiveZero]

\* The update from the gravity term on: p and E0 are the momentum and the
\* energy with the fluxes subtracted, mass the clamped mass, a the
\* acceleration.
update_sources(h, cell, internal_timestep, p, E0, mass, a) ==
  update_written(
    h, cell, mass, VAdd(p, VScale(mass (.) internal_timestep, a)),
    ClampEnergy(AddEnergyTerms(E0 (+) (internal_timestep
                                         (.) dot_product(p, a)),
                               internal_timestep, cell.energy_rate_term,
                               cell.energy_term)))

\* The update of the conserved variables.
UpdateCell(h, cell, internal_timestep) ==
  update_sources(
    h, cell, internal_timestep,
    Vec(cell.conserved[1] (-) cell.delta_conserved[1],
        cell.conserved[2] (-) cell.delta_conserved[2],
        cell.conserved[3] (-) cell.delta_conserved[3]),
    cell.conserved[4] (-) cell.delta_conserved[4],
    ClampMass(cell.conserved[0] (-) cell.delta_conserved[0]),
    InternalAcceleration(h, cell))

\* The square of get_soundspeed (the sound speed itself is a square root,
\* which is compared and used through its square only).
get_soundspeed2(h, cell) ==
  IF One \prec h.gamma
    THEN LET rho == get_primitives_density(cell)
         IN  IF Zero \prec rho
               THEN (h.gamma (.) get_primitives_pressure(cell)) (/) rho
               ELSE DBL_MIN (.) DBL_MIN
    ELSE LET mean_molecular_mass == Half (.) (One (+) cell.ionic_fraction)
         IN  (h.P_conversion_factor (.) cell.temperature)
               (/) mean_molecular_mass

\* The sound speed cap: the pressure scaled by (max_velocity / cs)^2 when the
\* sound speed cs exceeds max_velocity.
CapPressure(pressure, cs2, max_velocity) ==
  IF (max_velocity (.) max_velocity) \prec cs2
    THEN pressure (.) ((max_velocity (.) max_velocity) (/) cs2)
    ELSE pressure

\* The vacuum state.
Vacuum ==
  [density |-> Zero, velocity |-> VZero, pressure |-> Zero,
   temperature |-> Zero]

\* The primitive variables of a cell with mass, the pressure known.
gas_state(h, cell, mean_molecular_mass, density, velocity, pressure) ==
  [density |-> density, velocity |-> velocity, pressure |-> pressure,
   temperature |->
     IF One \prec h.gamma
       THEN ((mean_molecular_mass (.) h.T_conversion_factor) (.) pressure)
              (/) density
       ELSE cell.temperature]

\* The primitive variables of a cell with mass, the density and the
\* velocity known.
gas_pressure(h, cell, volume, momentum, total_energy, mean_molecular_mass, density, velocity) ==
  gas_state(h, cell, mean_molecular_mass, density, velocity,
            IF One \prec h.gamma
              THEN (h.gm1 (.) (total_energy
                                 (-) (Half (.) dot_product(velocity,
                                                           momentum))))
                     (/) volume
              ELSE ((h.P_conversion_factor (.) density) (.) cell.temperature)
                     (/) mean_molecular_mass)

\* The primitive variables of a cell with mass.
Gas(h, cell, volume, mass, momentum, total_energy) ==
  gas_pressure(h, cell, volume, momentum, total_energy,
               Half (.) (One (+) cell.ionic_fraction), mass (/) volume,
               VScale(One (/) mass, momentum))

\* SAFE_HYDRO: a state without density or pressure is the vacuum.
SafeState(state) ==
  IF state.density \preceq Zero \/ state.pressure \preceq Zero
    THEN Vacuum
    ELSE state

\* The end of the conversion: written is the cell with its density, capped
\* velocity and pressure set; the pressure is capped with the sound speed
\* of that cell.
recover_capped(h, safe, written) ==
  [written EXCEPT
     !.primitives[4] = CapPressure(safe.pressure, get_soundspeed2(h, written),
                                   h.max_velocity),
     !.number_density = safe.density (.) h.n_conversion_factor,
     !.temperature = IF One \prec h.gamma THEN safe.temperature ELSE @]

\* The conversion from the velocity cap on: safe is the state after the
\* SAFE_HYDRO checks.
recover_written(h, cell, safe) ==
  recover_capped(h, safe,
                 [cell EXCEPT
                    !.primitives =
                      Five(safe.density,
                           CapVelocity(safe.velocity, h.max_velocity),
                           safe.pressure)])

\* The conversion of the conserved variables to primitive variables.
RecoverCell(h, cell, volume) ==
  recover_written(
    h, cell,
    SafeState(IF get_conserved_mass(cell) \preceq Zero
                THEN Vacuum
                ELSE Gas(h, cell, volume, get_conserved_mass(cell),
                         get_conserved_momentum(cell),
                         get_conserved_total_energy(cell))))

(***************************************************************************)
(* The inputs of the model.                                                *)
(***************************************************************************)
MaxSteps == 1

GammaChoices == {R(2), One}

\* The type of all six boundaries.
BoundaryChoices == {"periodic", "reflective", "outflow"}

NeutralTemperature == One

IonisedTemperature == R(2)

ShockTemperature == R(6)

\* The time steps a caller passes to do_hydro_step (in s).
TimestepChoices == {R(4), R(8)}

\* What another subsystem writes to the energy buffers of the cells:
\* <<energy, energy rate>>, a source in the first cell and a sink in the
\* second.
Sources(c) ==
  IF c = 1 THEN <<R(3), One>>
  ELSE IF c = 2 THEN <<Zero, R(-2)>>
  ELSE <<Zero, Zero>>

\* The values the uninitialised energy flux of an isothermal run may hold:
\* a number or not a number.  Each face of each cell has its own.
UnsetChoices == {R(3), NaN}

Unsets(gamma) ==
  IF gamma = One
    THEN [{-1, 1} -> UnsetChoices]
    ELSE {[side \in {-1, 1} |-> Zero]}

\* The grids DensityGrid::initialize may hand over.  The temperature is
\* uniform, neutral gas at the neutral and ionised gas at the ionised
\* temperature; the density is uniform or falls to zero in the last cell;
\* the gas is at rest or the first cell is faster than every velocity
\* limit; gravity is absent or uniform along x.
NumberDensity(profile, c) ==
  IF profile = "uniform" THEN One
  ELSE (IF c = 1 THEN R(2) ELSE IF c = 2 THEN One ELSE Zero)

Velocity(profile, c) ==
  IF profile = "fast" /\ c = 1 THEN Vec(R(8), Zero, Zero) ELSE VZero

Gravity == Vec(One, Zero, Zero)

\* A run: the parameters of the integrator, the grid handed over, the
\* gradients the GradientCalculator gives and whether another subsystem
\* feeds energy into the cells.  The runs of the model are shock tubes
\* (dense fast gas expanding into a vacuum), streams (a fast cell in uniform
\* ionised gas, with gradients and radiation), atmospheres (uniform gas at
\* rest that is fed energy, with or without radiation) and columns (uniform
\* gas at rest under gravity).
ShockTubes ==
  [gamma : GammaChoices, radiation : {FALSE},
   max_velocity : {One}, boundary : BoundaryChoices,
   density : {"vacuum"}, velocity : {"fast"},
   temperature : {NeutralTemperature}, gravity : {VZero},
   gradients : {"flat"}, feedback : {FALSE}]

Streams ==
  [gamma : {R(2)}, radiation : {TRUE},
   max_velocity : {R(4)}, boundary : BoundaryChoices,
   density : {"uniform"}, velocity : {"fast"},
   temperature : {IonisedTemperature}, gravity : {VZero},
   gradients : {"central"}, feedback : {FALSE}]

Atmospheres ==
  [gamma : GammaChoices, radiation : BOOLEAN,
   max_velocity : {One}, boundary : {"reflective"},
   density : {"uniform"}, velocity : {"rest"},
   temperature : {IonisedTemperature}, gravity : {VZero},
   gradients : {"flat"}, feedback : {TRUE}]

Columns ==
  [gamma : GammaChoices, radiation : {FALSE},
   max_velocity : {One}, boundary : {"reflective"},
   density : {"uniform"}, velocity : {"rest"},
   temperature : {IonisedTemperature}, gravity : {Gravity},
   gradients : {"flat"}, feedback : {FALSE}]

Runs == ShockTubes \cup Streams \cup Atmospheres \cup Columns

GridOf(run) ==
  [c \in Cells |->
     NewCell(NumberDensity(run.density, c), run.temperature,
             IF run.temperature = NeutralTemperature THEN One ELSE Zero,
             Velocity(run.velocity, c), run.gravity)]

NoStep == [count |-> 0, timestep |-> Zero, internal_timestep |-> Zero,
           evolved |-> Zero, grid_velocity |-> Zero]

\* The faces of a cell the flux pass has not visited.
NoFace == [ngb |-> grid_end, raw |-> FiveZero, fluxfac |-> One,
           delta |-> FiveZero]

NoFaces == (-1 :> NoFace) @@ (1 :> NoFace)

\* The history of a step: the cells on entry, at the start of the flux
\* pass and before the update, and, during the flux pass, what the flux
\* computation of each cell added for each of its faces.
History(cs) ==
  [entry |-> cs, start |-> cs, update |-> cs, faces |-> [c \in Cells |-> NoFaces]]

(***************************************************************************)
(* The state after construction, the grid initialised by DensityGrid.      *)
(***************************************************************************)
Init ==
  /\ pc = "constructed"
  /\ error = "none"
  /\ step = NoStep
  /\ \E run \in Runs :
       /\ cfg = HydroIntegrator(run.gamma, run.radiation, run.radiation,
                                "Rusanov", NeutralTemperature,
                                IonisedTemperature, ShockTemperature,
                                run.max_velocity,
                                [f \in Faces |-> run.boundary], "nullptr")
       /\ grid = [periodicity |-> [i \in Axes |-> run.boundary = "periodic"],
                  gradients |-> run.gradients,
                  feedback |-> run.feedback]
       /\ cells = GridOf(run)
       /\ hist = History(GridOf(run))

(***************************************************************************)
(* Another subsystem writes the energy buffers of the cells between two    *)
(* steps.                                                                  *)
(***************************************************************************)
ExternalSources ==
  /\ pc = "idle"
  /\ grid.feedback
  /\ step.count < MaxSteps
  /\ \A c \in Cells : cells[c].energy_term = Zero
                        /\ cells[c].energy_rate_term = Zero
  /\ cells' = [c \in Cells |->
                 [cells[c] EXCEPT !.energy_term = Sources(c)[1],
                                  !.energy_rate_term = Sources(c)[2]]]
  /\ UNCHANGED <<pc, error, cfg, grid, step, hist>>

(***************************************************************************)
(* do_hydro_step, one action per phase.                                    *)
(***************************************************************************)
\* Entry: the time step in internal units, and the gradient pass.
do_hydro_step_gradients ==
  /\ pc = "idle"
  /\ step.count < MaxSteps
  /\ \E timestep \in TimestepChoices :
       /\ step' = [step EXCEPT
                     !.timestep = timestep,
                     !.internal_timestep =
                       convert_to_internal_units(cfg.hydro_units,
                                                 "QUANTITY_TIME", timestep)]
       /\ cells' = [c \in Cells |->
                      GradientComputation(cfg, grid.periodicity[0], cells, c,
                                          grid.gradients)]
  /\ hist' = [hist EXCEPT !.entry = cells]
  /\ pc' = "predict"
  /\ UNCHANGED <<error, cfg, grid>>

\* The time prediction loop; then the access flags are reset for the flux
\* pass.
do_hydro_step_predict ==
  /\ pc = "predict"
  /\ \E reset \in {[c \in Cells |->
                      [PredictCell(cfg, cells[c],
                                   Half (.) step.internal_timestep)
                         EXCEPT !.access = 0]]} :
       /\ cells' = reset
       /\ hist' = [hist EXCEPT !.start = reset,
                                !.faces = [c \in Cells |-> NoFaces]]
  /\ pc' = "flux"
  /\ UNCHANGED <<error, cfg, grid, step>>

\* A job of the flux pass: the flux computation is run for cell c.
flux_job(c) ==
  /\ pc = "flux"
  /\ \E unset \in Unsets(cfg.gamma) :
       \E faces \in {FacesOf(cfg, grid.periodicity[0], cells, c,
                              step.internal_timestep, unset)} :
         /\ cells' = HydroFluxComputation(cells, c, faces)
         /\ hist' = [hist EXCEPT !.faces[c] = faces]
  /\ UNCHANGED <<pc, error, cfg, grid, step>>

\* The flux pass: a worker takes a cell no worker has taken and runs the
\* flux computation for it.
do_hydro_step_flux(c) ==
  /\ cells[c].access = 0
  /\ flux_job(c)

\* grid.check_access(): every cell has been accessed exactly once.
check_access(cs) == \A c \in Cells : cs[c].access = 1

\* The end of the flux pass, when the workers are done: check_access.
flux_pass_end ==
  /\ pc = "flux"
  /\ IF check_access(cells)
       THEN pc' = "radiation" /\ error' = error
       ELSE pc' = "error"
            /\ error' = "Access error in hydro flux exchange loop!"
  /\ hist' = [hist EXCEPT !.faces = [c \in Cells |-> NoFaces]]
  /\ UNCHANGED <<cfg, grid, cells, step>>

\* The end of the flux pass: every cell has been taken.
do_hydro_step_check_access ==
  /\ \A c \in Cells : cells[c].access > 0
  /\ flux_pass_end

do_hydro_step_radiation ==
  /\ pc = "radiation"
  /\ cells' = IF cfg.do_radiative_heating \/ cfg.do_radiative_cooling
                THEN [c \in Cells |-> RadiationCell(cfg, cells[c])]
                ELSE cells
  /\ pc' = "update"
  /\ UNCHANGED <<error, cfg, grid, step, hist>>

do_hydro_step_update ==
  /\ pc = "update"
  /\ cells' = [c \in Cells |->
                 UpdateCell(cfg, cells[c], step.internal_timestep)]
  /\ hist' = [hist EXCEPT !.update = cells]
  /\ pc' = "evolve"
  /\ UNCHANGED <<error, cfg, grid, step>>

\* grid.evolve with the time step in internal units.
do_hydro_step_evolve_internal ==
  /\ pc = "evolve"
  /\ step' = [step EXCEPT !.evolved = step.internal_timestep]
  /\ pc' = "recover"
  /\ UNCHANGED <<error, cfg, grid, cells, hist>>

\* grid.evolve(timestep): the grid is at rest, nothing moves; the step
\* records the time the grid was evolved over.
do_hydro_step_evolve ==
  /\ pc = "evolve"
  /\ step' = [step EXCEPT !.evolved = step.timestep]
  /\ pc' = "recover"
  /\ UNCHANGED <<error, cfg, grid, cells, hist>>

\* The recovery of the primitive variables from the conserved ones.
do_hydro_step_recover ==
  /\ pc = "recover"
  /\ cells' = [c \in Cells |->
                 RecoverCell(cfg, cells[c],
                             convert_to_internal_units(cfg.hydro_units,
                                                       "QUANTITY_VOLUME",
                                                       get_volume(c)))]
  /\ pc' = "grid_velocity"
  /\ UNCHANGED <<error, cfg, grid, step, hist>>

\* grid.set_grid_velocity(gamma, velocity unit): nothing changes on a grid
\* at rest; the step records the velocity unit handed over and returns.
do_hydro_step_set_grid_velocity ==
  /\ pc = "grid_velocity"
  /\ step' = [step EXCEPT
                !.count = @ + 1,
                !.grid_velocity =
                  get_unit_SI_value(cfg.hydro_units, "QUANTITY_VELOCITY")]
  /\ pc' = "idle"
  /\ UNCHANGED <<error, cfg, grid, cells, hist>>

Next ==
  \/ initialize_hydro_variables
  \/ ExternalSources
  \/ do_hydro_step_gradients
  \/ do_hydro_step_predict
  \/ \E c \in Cells : do_hydro_step_flux(c)
  \/ do_hydro_step_check_access
  \/ do_hydro_step_radiation
  \/ do_hydro_step_update
  \/ do_hydro_step_evolve
  \/ do_hydro_step_recover
  \/ do_hydro_step_set_grid_velocity

Spec == Init /\ [][Next]_vars

(***************************************************************************)
(* Construction as an operation of its own: the constructor called with    *)
(* any six boundary keywords, any box periodicity, with or without a Bondi *)
(* profile.  It ends in a constructed integrator or in a cmac_error.       *)
(***************************************************************************)
Construct ==
  /\ pc = "new"
  /\ \E boundary \in [Faces -> BoundaryTypeNames],
        box_periodicity \in [Axes -> BOOLEAN],
        bondi_profile \in {"nullptr", "BondiProfile"} :
       /\ cfg' = HydroIntegrator(DefaultGamma, TRUE, FALSE, "Exact",
                                 DefaultNeutralTemperature,
                                 DefaultIonisedTemperature,
                                 DefaultShockTemperature, R(1000000),
                                 boundary, bondi_profile)
       /\ error' = ConstructorError(cfg'.boundaries, box_periodicity,
                                    bondi_profile)
       /\ pc' = IF error' = "none" THEN "constructed" ELSE "error"
       /\ grid' = [periodicity |-> box_periodicity]
  /\ UNCHANGED <<cells, step, hist>>

InitConstruct ==
  /\ pc = "new"
  /\ error = "none"
  /\ cfg = None
  /\ grid = None
  /\ cells = <<>>
  /\ step = None
  /\ hist = None

NextConstruct == Construct

SpecConstruct == InitConstruct /\ [][NextConstruct]_vars

(***************************************************************************)
(* Claims about a step.                                                    *)
(***************************************************************************)
\* do_hydro_step has returned at least once and no step is running.
Returned == pc = "idle" /\ step.count > 0

MaxVelocity2 == cfg.max_velocity (.) cfg.max_velocity

\* The mass and the total energy of a cell as the update computes them,
\* before the SAFE_HYDRO clamps.
MassBeforeClamp(c) ==
  hist.update[c].conserved[0] (-) hist.update[c].delta_conserved[0]

EnergyBeforeSources(c) ==
  LET u == hist.update[c]
      p == Vec(u.conserved[1] (-) u.delta_conserved[1],
               u.conserved[2] (-) u.delta_conserved[2],
               u.conserved[3] (-) u.delta_conserved[3])
      work == dot_product(p, InternalAcceleration(cfg, u))
  IN  (u.conserved[4] (-) u.delta_conserved[4])
        (+) (step.internal_timestep (.) work)

EnergyBeforeClamp(c) ==
  (EnergyBeforeSources(c)
     (+) (step.internal_timestep (.) hist.entry[c].energy_rate_term))
    (+) hist.entry[c].energy_term

InputSpeedExceeded(c) ==
  LET max_velocity == convert_to_SI_units(cfg.hydro_units, "QUANTITY_VELOCITY",
                                          cfg.max_velocity)
  IN  (max_velocity (.) max_velocity)
        \prec norm2(get_primitives_velocity(hist.entry[c]))

\* C2: after initialise and after every step the primitive speed of every
\* cell is at most max_velocity; after initialise it is max_velocity for a
\* cell whose input speed exceeded it.
C2_VelocityCapped ==
  pc = "idle" =>
    \A c \in Cells :
      /\ norm2(get_primitives_velocity(cells[c])) \preceq MaxVelocity2
      /\ (step.count = 0 /\ InputSpeedExceeded(c))
           => norm2(get_primitives_velocity(cells[c])) = MaxVelocity2

\* A step has returned in which the velocity recovered for some cell with
\* mass exceeded max_velocity and was capped.
C2_CapActed ==
  /\ Returned
  /\ \E c \in Cells :
       /\ Zero \prec get_conserved_mass(cells[c])
       /\ Zero \prec get_primitives_density(cells[c])
       /\ MaxVelocity2
            \prec norm2(VScale(One (/) get_conserved_mass(cells[c]),
                               get_conserved_momentum(cells[c])))
       /\ norm2(get_primitives_velocity(cells[c])) = MaxVelocity2

\* C3: after every step the sound speed get_soundspeed gives for a cell is
\* at most max_velocity, for gamma > 1 and for gamma = 1.
C3_SoundSpeedCapped ==
  Returned =>
    \A c \in Cells : get_soundspeed2(cfg, cells[c]) \preceq MaxVelocity2

\* C4: after every step a cell with conserved mass 0 has conserved momentum
\* 0 and primitive density, velocity, pressure and temperature 0.
C4_Vacuum ==
  Returned =>
    \A c \in Cells :
      get_conserved_mass(cells[c]) = Zero =>
        /\ get_conserved_momentum(cells[c]) = VZero
        /\ cells[c].primitives = FiveZero
        /\ cells[c].temperature = Zero

AllPeriodic == \A f \in Faces : cfg.boundaries[f] = "HYDRO_BOUNDARY_PERIODIC"

NoRadiation == ~cfg.do_radiative_heating /\ ~cfg.do_radiative_cooling

NoGravity ==
  \A c \in Cells : hist.entry[c].gravitational_acceleration = VZero

\* The sum over the cells of component i of the conserved variables.
Total(cs, i) == RSum([c \in Cells |-> cs[c].conserved[i]], NumCells)

\* C5: with all boundaries periodic and radiative heating and cooling
\* disabled, the total conserved mass after a step is the total before it.
C5_MassConserved ==
  (Returned /\ AllPeriodic /\ NoRadiation) =>
    Total(cells, 0) = Total(hist.entry, 0)

\* C6: with all boundaries periodic, radiative heating and cooling disabled
\* and no gravity, the total conserved momentum after a step is the total
\* before it.
C6_MomentumConserved ==
  (Returned /\ AllPeriodic /\ NoRadiation /\ NoGravity) =>
    \A i \in 1..3 : Total(cells, i) = Total(hist.entry, i)

\* The flux computation of this pass has run for cell c.
Processed(c) == cells[c].access = 1

\* Cell a has an interior high face and the flux computation has run on
\* both sides of it.
SharedFace(a) ==
  LET b == Neighbour(grid.periodicity[0], a, 1)
  IN  pc = "flux" /\ b # grid_end /\ Processed(a) /\ Processed(b)

HighFace(a) == hist.faces[a][1]

LowFaceOfNeighbour(a) == hist.faces[Neighbour(grid.periodicity[0], a, 1)][-1]

\* C7: for two cells sharing a face, the limited mass, momentum and energy
\* contributions the two flux computations add for that face sum to zero,
\* and the two flux limiter factors are equal.
C7_FluxAntisymmetric ==
  \A a \in Cells :
    SharedFace(a) =>
      /\ HighFace(a).fluxfac = LowFaceOfNeighbour(a).fluxfac
      /\ FiveAdd(HighFace(a).delta, LowFaceOfNeighbour(a).delta) = FiveZero

\* C7, amended: the factors are equal and the mass and momentum
\* contributions sum to zero; the energy contributions sum to zero for
\* gamma > 1, where the solver sets the energy flux.
C7_FluxAntisymmetricButIsothermalEnergy ==
  \A a \in Cells :
    SharedFace(a) =>
      /\ HighFace(a).fluxfac = LowFaceOfNeighbour(a).fluxfac
      /\ \A i \in 0..3 :
           HighFace(a).delta[i] (+) LowFaceOfNeighbour(a).delta[i] = Zero
      /\ One \prec cfg.gamma =>
           HighFace(a).delta[4] (+) LowFaceOfNeighbour(a).delta[4] = Zero

\* Both flux computations of a shared face have run, the flux through it is
\* not zero and the limiter has reduced it.
C7_LimitedSharedFace ==
  \E a \in Cells :
    /\ SharedFace(a)
    /\ HighFace(a).fluxfac \prec One
    /\ HighFace(a).delta[0] # Zero

\* Cell c after its flux computation, run on the cells as they were at the
\* start of the pass.
FluxComputed(c, unset) ==
  HydroFluxComputation(
    hist.start, c,
    FacesOf(cfg, grid.periodicity[0], hist.start, c, step.internal_timestep,
            unset))[c]

\* C8: in whatever order the cells are taken during the flux pass, a cell
\* not yet taken is as it was at the start of the pass, and a cell taken
\* differs from then in its access flag and in its delta_conserved only,
\* which holds the fluxes computed from the cells as they were at the start
\* of the pass.
C8_FluxPassOrderIndependent ==
  pc = "flux" =>
    \A c \in Cells :
      IF cells[c].access = 0
        THEN cells[c] = hist.start[c]
        ELSE \A unset \in Unsets(cfg.gamma) :
               cells[c] = FluxComputed(c, unset)

\* C8, amended: the same, but for the energy component of delta_conserved
\* when gamma = 1: it holds the energy flux that is not set, which is not
\* a function of the cells.
C8_FluxPassOrderIndependentButIsothermalEnergy ==
  pc = "flux" =>
    \A c \in Cells :
      IF cells[c].access = 0
        THEN cells[c] = hist.start[c]
        ELSE \A unset \in Unsets(cfg.gamma) :
               LET computed == FluxComputed(c, unset)
               IN  /\ [cells[c] EXCEPT !.delta_conserved[4] = Zero]
                        = [computed EXCEPT !.delta_conserved[4] = Zero]
                   /\ One \prec cfg.gamma =>
                        cells[c].delta_conserved[4]
                          = computed.delta_conserved[4]

\* The last cell has been taken before the first, and has exchanged mass.
C8_OutOfOrder ==
  /\ pc = "flux"
  /\ cells[1].access = 0
  /\ cells[NumCells].access = 1
  /\ cells[NumCells].delta_conserved[0] # Zero

\* C9: when a step returns, the two energy buffers and the five components
\* of delta_conserved of every cell are zero, and the total energy of the
\* cell holds each buffer as it was on entry exactly once.
C9_BuffersFlushed ==
  Returned =>
    \A c \in Cells :
      /\ cells[c].energy_rate_term = Zero
      /\ cells[c].energy_term = Zero
      /\ cells[c].delta_conserved = FiveZero
      /\ get_conserved_total_energy(cells[c])
           = ClampEnergy(EnergyBeforeClamp(c))

\* A step has returned on whose entry both buffers held something, in a
\* cell that kept a positive total energy.
C9_BuffersWereSet ==
  /\ Returned
  /\ \E c \in Cells :
       /\ hist.entry[c].energy_term # Zero
       /\ Zero \prec get_conserved_total_energy(cells[c])
  /\ \E c \in Cells :
       /\ hist.entry[c].energy_rate_term # Zero
       /\ Zero \prec get_conserved_total_energy(cells[c])

(***************************************************************************)
(* Claims about construction.                                              *)
(***************************************************************************)
IsPeriodic(f) == cfg.boundaries[f] = "HYDRO_BOUNDARY_PERIODIC"

\* C10: for each axis, if the low or the high boundary is periodic, a
\* construction that succeeded has both boundaries of the axis periodic and a
\* grid box periodic along it (every other combination is a fatal error).
C10_PeriodicityChecked ==
  pc = "constructed" =>
    \A i \in Axes :
      (IsPeriodic(2 * i) \/ IsPeriodic(2 * i + 1)) =>
        /\ IsPeriodic(2 * i)
        /\ IsPeriodic(2 * i + 1)
        /\ grid.periodicity[i]


IsBondi(f) == cfg.boundaries[f] = "HYDRO_BOUNDARY_BONDI"

\* C11: a construction that succeeded with a bondi boundary on any of the six
\* faces was given a Bondi profile (a bondi face without a profile is a
\* fatal error, so the flux pass never reads a missing profile).
C11_BondiProfileChecked ==
  pc = "constructed" =>
    ((\E f \in Faces : IsBondi(f)) => cfg.bondi_profile # "nullptr")

(***************************************************************************)
(* The right side of a boundary face as an operation of its own: one face  *)
(* of the box with any non-periodic boundary condition, any of the six    *)
(* outward normals, and a left cell whose velocity points into or out of   *)
(* the box along every axis.                                               *)
(***************************************************************************)
\* The outward normal of box face f (0 = x low, 1 = x high, ...).
FaceNormal(f) ==
  [i \in Axes |-> IF i # f \div 2 THEN Zero
                  ELSE IF f % 2 = 0 THEN R(-1) ELSE One]

FaceAxis(f) == f \div 2

OpenBoundaryNames == BoundaryTypeNames \ {"periodic"}

OtherBoundaryNames == {"reflective", "outflow"}

LeftVelocities == [Axes -> {R(-1), R(2)}]

\* A cell next to the boundary: density 2, pressure 3, the given velocity,
\* and gradients that all differ from each other and from zero.
BoundaryCell(velocity) ==
  [NewCell(Zero, Zero, Zero, VZero, VZero) EXCEPT
     !.primitives = Five(R(2), velocity, R(3)),
     !.primitive_gradients =
        Gradients(Vec(R(1), R(2), R(3)), Vec(R(4), R(5), R(6)),
                  Vec(R(7), R(8), R(9)), Vec(R(10), R(11), R(12)),
                  Vec(R(13), R(14), R(15))),
     !.conserved = Five(R(2), VScale(R(2), velocity), R(5))]

InitBoundary ==
  /\ pc = "face"
  /\ error = "none"
  /\ \E face \in Faces, type \in OpenBoundaryNames,
        other \in OtherBoundaryNames, velocity \in LeftVelocities :
       /\ cfg = HydroIntegrator(DefaultGamma, TRUE, FALSE, "Exact",
                                DefaultNeutralTemperature,
                                DefaultIonisedTemperature,
                                DefaultShockTemperature, R(1000000),
                                [f \in Faces |-> IF f = face THEN type
                                                 ELSE other],
                                "BondiProfile")
       /\ grid = [face |-> face]
       /\ cells = (1 :> BoundaryCell(velocity))
       /\ step = [normal |-> FaceNormal(face),
                  posR |-> VAdd(get_cell_midpoint(1), FaceNormal(face))]
  /\ hist = None

\* The neighbour loop of the flux computation at a face without a
\* neighbouring cell, up to the call of compute_fluxes.
boundary_face ==
  /\ pc = "face"
  /\ \E right \in {RightSide(cfg, cells, grid_end, step.normal, step.posR,
                              LeftState(cells[1]), FluxLimits(cells[1]))} :
       hist' = [left |-> LeftState(cells[1]), limL |-> FluxLimits(cells[1]),
                right |-> right.state, limR |-> right.lim]
  /\ pc' = "compute_fluxes"
  /\ UNCHANGED <<error, cfg, grid, cells, step>>

NextBoundary == boundary_face

SpecBoundary == InitBoundary /\ [][NextBoundary]_vars

(***************************************************************************)
(* Claims about the boundary conditions.                                   *)
(***************************************************************************)
\* The boundary face has been given its right state, and the boundary it
\* lies on is of this type.
FaceDone(type) ==
  pc = "compute_fluxes" /\ cfg.boundaries[grid.face] = type

\* The right state of the face had its boundary been reflective.
ReflectiveState ==
  BoundaryState([cfg.boundaries EXCEPT
                   ![grid.face] = "HYDRO_BOUNDARY_REFLECTIVE"],
                step.normal, step.posR, hist.left)

\* v with component i negated.
Flip(v, i) == [k \in Axes |-> IF k = i THEN RNeg(v[k]) ELSE v[k]]

\* C12: at an inflow boundary face the right state handed to the flux
\* kernel is the one a reflective boundary on that face would give, for
\* every left state and face normal.
C12_InflowIsReflective ==
  FaceDone("HYDRO_BOUNDARY_INFLOW") => hist.right = ReflectiveState

\* C12 (amended): at an inflow boundary face the right state handed to the
\* flux kernel is the unmodified copy of the left state (density, velocity,
\* pressure and all gradients), and the right flux limits are the left ones.
C12_InflowIsCopy ==
  FaceDone("HYDRO_BOUNDARY_INFLOW") =>
    hist.right = hist.left /\ hist.limR = hist.limL

\* C12 witness: an inflow face whose left state a reflective boundary would
\* have changed.
C12_InflowFace ==
  /\ FaceDone("HYDRO_BOUNDARY_INFLOW")
  /\ ReflectiveState # hist.left
  /\ hist.right = hist.left

\* C13: at a reflective boundary face on axis i the right density and
\* pressure are the left ones, the right velocity and the gradients of the
\* density and the pressure are the left ones with component i negated, the
\* gradient of velocity component j has its i-component negated for j # i
\* and is unchanged for j = i, and the right flux limits are the left ones.
C13_ReflectiveRightState ==
  FaceDone("HYDRO_BOUNDARY_REFLECTIVE") =>
    LET i == FaceAxis(grid.face)
        L == hist.left
    IN  /\ hist.right.rho = L.rho
        /\ hist.right.P = L.P
        /\ hist.right.u = Flip(L.u, i)
        /\ hist.right.gradrho = Flip(L.gradrho, i)
        /\ hist.right.gradP = Flip(L.gradP, i)
        /\ \A j \in Axes :
             hist.right.gradu[j] = IF j # i THEN Flip(L.gradu[j], i)
                                   ELSE L.gradu[j]
        /\ hist.limR = hist.limL

\* C13 witness: a reflective face whose left cell moves along the axis of
\* the face, so that the right state differs from the left one.
C13_ReflectedFace ==
  /\ FaceDone("HYDRO_BOUNDARY_REFLECTIVE")
  /\ hist.left.u[FaceAxis(grid.face)] # Zero
  /\ hist.right # hist.left

\* C14: at an outflow boundary face on axis i the right state is the left
\* state, except that when the left velocity points into the box
\* (v[i] * n[i] < 0) component i of the right velocity is mirrored and the
\* gradient of velocity component i is zero.
C14_OutflowRightState ==
  FaceDone("HYDRO_BOUNDARY_OUTFLOW") =>
    LET i == FaceAxis(grid.face)
        L == hist.left
    IN  IF (L.u[i] (.) step.normal[i]) \prec Zero
          THEN /\ hist.right.rho = L.rho
               /\ hist.right.P = L.P
               /\ hist.right.u = Flip(L.u, i)
               /\ hist.right.gradrho = L.gradrho
               /\ hist.right.gradP = L.gradP
               /\ \A j \in Axes :
                    hist.right.gradu[j] = IF j = i THEN VZero
                                          ELSE L.gradu[j]
          ELSE hist.right = L

\* C14 witness: an outflow face whose left cell moves into the box.
C14_InflowingOutflowFace ==
  /\ FaceDone("HYDRO_BOUNDARY_OUTFLOW")
  /\ (hist.left.u[FaceAxis(grid.face)] (.) step.normal[FaceAxis(grid.face)])
       \prec Zero
  /\ hist.right # hist.left

(***************************************************************************)
(* The flux limiter as an operation of its own: the flux that              *)
(* compute_fluxes returned for a face between two cells, limited as the    *)
(* neighbour loop limits it, and limit_flux called on the same fluxes and  *)
(* limits with any high-momentum flags.                                    *)
(***************************************************************************)
LimiterMasses == {Zero, One, R(4)}

LimiterMomenta == {Zero, R(3)}

LimiterEnergies == {Zero, R(2)}

LimiterPressures == {One, R(4), R(16)}

\* A cell of unit volume: its density is its mass, its velocity its momentum
\* per unit of mass; a cell without mass has no momentum.
LimiterCell(mass, momentum, energy, pressure) ==
  [NewCell(Zero, Zero, Zero, VZero, VZero) EXCEPT
     !.primitives = Five(mass,
                         Vec(IF mass = Zero THEN Zero ELSE momentum (/) mass,
                             Zero, Zero),
                         pressure),
     !.conserved = Five(mass, Vec(momentum, Zero, Zero), energy)]

LimiterCells ==
  {LimiterCell(m, p, E, P) : m \in LimiterMasses \ {Zero},
                             p \in LimiterMomenta, E \in LimiterEnergies,
                             P \in LimiterPressures}
    \cup {LimiterCell(Zero, Zero, E, P) : E \in LimiterEnergies,
                                         P \in LimiterPressures}

\* The fluxes compute_fluxes may return, integrated over the time step.
LimiterFluxes ==
  [mflux : {R(-3), Zero, R(3)},
   pflux : {Vec(p, Zero, Zero) : p \in {R(4), R(12)}},
   Eflux : {R(-6), R(3), R(6)}]

InitLimiter ==
  /\ pc = "limit_flux"
  /\ error = "none"
  /\ \E gamma \in GammaChoices :
       cfg = HydroIntegrator(gamma, FALSE, FALSE, "Exact", NeutralTemperature,
                             IonisedTemperature, ShockTemperature, One,
                             [f \in Faces |-> "reflective"], "nullptr")
  /\ grid = None
  /\ \E left \in LimiterCells, right \in LimiterCells :
       cells = (1 :> left) @@ (2 :> right)
  /\ \E flux \in LimiterFluxes : step = [flux |-> flux]
  /\ hist = None

\* The neighbour loop from the return of compute_fluxes to the accumulation
\* in delta_conserved.
limit_face_flux ==
  /\ pc = "limit_flux"
  /\ LET limL == FluxLimits(cells[1])
         limR == FluxLimits(cells[2])
     IN  hist' = LimitedFlux(cfg.gamma, step.flux, limL, limR,
                             get_primitives_density(cells[1]),
                             get_primitives_pressure(cells[1]),
                             get_primitives_density(cells[2]),
                             get_primitives_pressure(cells[2]))
  /\ pc' = "accumulate"
  /\ UNCHANGED <<error, cfg, grid, cells, step>>

\* limit_flux called with the fluxes and limits of the face and any
\* high-momentum flags.
limit_flux_call ==
  /\ pc = "limit_flux"
  /\ \E high_momentum_L \in BOOLEAN, high_momentum_R \in BOOLEAN :
       LET isothermal == cfg.gamma = One
           limL == FluxLimits(cells[1])
           limR == FluxLimits(cells[2])
           pflux2 == norm2(step.flux.pflux)
           pL2fluxlimit == R(FLUX_LIMITER * FLUX_LIMITER) (.) limL.p2
           pR2fluxlimit == R(FLUX_LIMITER * FLUX_LIMITER) (.) limR.p2
       IN  hist' = [high_momentum_L |-> high_momentum_L,
                    high_momentum_R |-> high_momentum_R,
                    isothermal |-> isothermal,
                    fluxfac |->
                      limit_flux(step.flux.mflux, pflux2, step.flux.Eflux,
                                 limL.mfluxlimit, pL2fluxlimit,
                                 limL.Efluxlimit, limR.mfluxlimit,
                                 pR2fluxlimit, limR.Efluxlimit,
                                 high_momentum_L, high_momentum_R,
                                 isothermal)]
  /\ pc' = "return"
  /\ UNCHANGED <<error, cfg, grid, cells, step>>

NextLimiter == limit_face_flux \/ limit_flux_call

SpecLimiter == InitLimiter /\ [][NextLimiter]_vars

(***************************************************************************)
(* Claims about the flux limiter.                                          *)
(***************************************************************************)
\* C15: limit_flux returns a factor between 0 and 1 for every finite mass,
\* energy and squared momentum flux, every combination of non-negative
\* limits and every combination of the high-momentum and isothermal flags.
C15_FactorInRange ==
  pc \in {"return", "accumulate"} =>
    Zero \preceq hist.fluxfac /\ hist.fluxfac \preceq One

\* C15 witness: limit_flux returned a factor strictly between 0 and 1.
C15_FactorReduced ==
  pc = "return" /\ Zero \prec hist.fluxfac /\ hist.fluxfac \prec One

\* C16: the limited mass flux through a face is at most FLUX_LIMITER times
\* the conserved mass of the left cell and its opposite at most FLUX_LIMITER
\* times that of the right cell; for gamma # 1 the same holds for the
\* energy flux and the total energies.
C16_FluxBelowLimit ==
  pc = "accumulate" =>
    LET mL == get_conserved_mass(cells[1])
        mR == get_conserved_mass(cells[2])
        EL == get_conserved_total_energy(cells[1])
        ER == get_conserved_total_energy(cells[2])
    IN  /\ hist.delta[0] \preceq (R(FLUX_LIMITER) (.) mL)
        /\ RNeg(hist.delta[0]) \preceq (R(FLUX_LIMITER) (.) mR)
        /\ cfg.gamma # One =>
             /\ hist.delta[4] \preceq (R(FLUX_LIMITER) (.) EL)
             /\ RNeg(hist.delta[4]) \preceq (R(FLUX_LIMITER) (.) ER)

\* C16 witness: a flux that exceeded the mass limit of the cell it leaves
\* and was reduced.
C16_MassFluxLimited ==
  /\ pc = "accumulate"
  /\ hist.fluxfac \prec One
  /\ \/ (R(FLUX_LIMITER) (.) get_conserved_mass(cells[1])) \prec step.flux.mflux
     \/ (R(FLUX_LIMITER) (.) get_conserved_mass(cells[2]))
          \prec RNeg(step.flux.mflux)

\* The kinetic-is-large indicator of a cell: |p|^2 rho > gamma m^2 P, with m
\* the conserved mass and p the conserved momentum of the cell.
KineticIsLarge(cell) ==
  ((cfg.gamma (.) (get_conserved_mass(cell) (.) get_conserved_mass(cell)))
      (.) get_primitives_pressure(cell))
    \prec (norm2(get_conserved_momentum(cell))
             (.) get_primitives_density(cell))

\* C17: the momentum part of the limiter is applied to a side of the face
\* exactly when the kinetic-is-large indicator of that side is true: the
\* factor is the one limit_flux returns with the indicators as flags, so
\* that f <= sqrt((FLUX_LIMITER |p|)^2 / |pflux|^2) where the indicator is
\* true and the momentum flux does not reduce f where it is false.
C17_MomentumLimiterIndicator ==
  pc = "accumulate" =>
    /\ hist.high_momentum_L = KineticIsLarge(cells[1])
    /\ hist.high_momentum_R = KineticIsLarge(cells[2])
    /\ hist.fluxfac =
         limit_flux(step.flux.mflux, hist.pflux2, step.flux.Eflux,
                    FluxLimits(cells[1]).mfluxlimit, hist.pL2fluxlimit,
                    FluxLimits(cells[1]).Efluxlimit,
                    FluxLimits(cells[2]).mfluxlimit, hist.pR2fluxlimit,
                    FluxLimits(cells[2]).Efluxlimit,
                    KineticIsLarge(cells[1]), KineticIsLarge(cells[2]),
                    cfg.gamma = One)

(***************************************************************************)
(* HydroFluxComputation::limit on its own: the limiter is applied to a     *)
(* reconstructed value and then to its own result, with the same left and  *)
(* right values and the same fractional distance.                          *)
(***************************************************************************)
\* The left and right values are the integers up to MaxPhi in size, the
\* reconstructed value may lie anywhere within or outside of them.
MaxPhi == 2

LimiterValues == {R(n) : n \in -MaxPhi..MaxPhi}

ReconstructedValues ==
  {Rat(n, 2) : n \in (-4 * MaxPhi)..(4 * MaxPhi)}

\* The fractional distance of the face between the two cell centres; the
\* values below 0 and above 1 are faces that do not lie between them.
FractionalDistances == {R(-1), Zero, <<1, 4>>, Half, One, R(2)}

InitLimit ==
  /\ pc = "limit"
  /\ error = "none"
  /\ cfg = None
  /\ grid = None
  /\ cells = <<>>
  /\ \E phimid0 \in ReconstructedValues, phiL \in LimiterValues,
        phiR \in LimiterValues, dnrm_over_r \in FractionalDistances :
       step = [phimid0 |-> phimid0, phiL |-> phiL, phiR |-> phiR,
               dnrm_over_r |-> dnrm_over_r]
  /\ hist = None

\* limit(phimid0, phiL, phiR, dnrm_over_r)
limit_value ==
  /\ pc = "limit"
  /\ hist' = [once |-> limit(step.phimid0, step.phiL, step.phiR,
                             step.dnrm_over_r)]
  /\ pc' = "limited"
  /\ UNCHANGED <<error, cfg, grid, cells, step>>

\* limit(phimid, phiL, phiR, dnrm_over_r) for the value phimid the first
\* call returned.
limit_limited ==
  /\ pc = "limited"
  /\ hist' = [once |-> hist.once,
              twice |-> limit(hist.once, step.phiL, step.phiR,
                              step.dnrm_over_r)]
  /\ pc' = "relimited"
  /\ UNCHANGED <<error, cfg, grid, cells, step>>

NextLimit == limit_value \/ limit_limited

SpecLimit == InitLimit /\ [][NextLimit]_vars

\* C18: the slope limiter is idempotent: the limiter applied to its own
\* result, with the same left and right values and the same fractional
\* distance, returns that result.
C18_LimitIdempotent ==
  pc = "relimited" => hist.twice = hist.once

\* The limiter has been applied twice to a value it changes, between a left
\* and a right value that differ.
C18_LimitedTwice ==
  /\ pc = "relimited"
  /\ step.phiL # step.phiR
  /\ hist.once # step.phimid0

(***************************************************************************)
(* The radiation loop of do_hydro_step on its own, from the states the     *)
(* flux pass may leave the cells in.                                       *)
(***************************************************************************)
\* The units initialize_hydro_variables may have chosen: <<length, density,
\* pressure>>.
RadiationUnits == {<<One, One, One>>, <<R(2), R(4), One>>}

RadiationDensities == {Zero, One, R(2)}

RadiationPressures == {One, R(4), R(8), R(16)}

RadiationMasses == {Zero, One, R(3)}

\* The energy another subsystem has written to the energy buffer.
RadiationEnergyTerms == {Zero, R(3)}

\* The energy the flux pass has accumulated.
RadiationDeltas == {Zero, R(5)}

\* The cells are neutral to a degree that grows along the row, from fully
\* ionised to fully neutral.
NeutralFraction(c) == Rat(c - 1, NumCells - 1)

RadiationCellOf(c, density, pressure, mass, energy_term, delta_energy) ==
  [NewCell(density, Zero, NeutralFraction(c), VZero, VZero) EXCEPT
     !.primitives = Five(density, VZero, pressure),
     !.conserved = Five(mass, VZero, R(7)),
     !.energy_term = energy_term,
     !.delta_conserved = Five(Zero, VZero, delta_energy)]

InitRadiation ==
  /\ pc = "radiation"
  /\ error = "none"
  /\ \E gamma \in GammaChoices, do_radiative_heating \in BOOLEAN,
        do_radiative_cooling \in BOOLEAN, units \in RadiationUnits :
       cfg = RescaleIntegrator(
               HydroIntegrator(gamma, do_radiative_heating,
                               do_radiative_cooling, "Rusanov",
                               NeutralTemperature, IonisedTemperature,
                               ShockTemperature, One,
                               [f \in Faces |-> "reflective"], "nullptr"),
               InternalHydroUnits(units[1], units[2], units[3]))
  /\ grid = None
  /\ \E density \in RadiationDensities, pressure \in RadiationPressures,
        mass \in RadiationMasses, energy_term \in RadiationEnergyTerms,
        delta_energy \in RadiationDeltas :
       cells = [c \in Cells |->
                  RadiationCellOf(c, density, pressure, mass, energy_term,
                                  delta_energy)]
  /\ step = NoStep
  /\ hist = None

NextRadiation == do_hydro_step_radiation

SpecRadiation == InitRadiation /\ [][NextRadiation]_vars

(***************************************************************************)
(* Claims about the radiation loop.                                        *)
(***************************************************************************)
\* The radiation loop runs: heating or cooling is enabled.
RadiationEnabled == cfg.do_radiative_heating \/ cfg.do_radiative_cooling

\* T_old, the gas temperature of a cell with gas.
GasTemperature(cell) ==
  (((Half (.) (One (+) cell.ionic_fraction)) (.) cfg.T_conversion_factor)
     (.) get_primitives_pressure(cell)) (/) get_primitives_density(cell)

\* T_target, the temperature the ionisation state of a cell asks for.
TargetTemperature(cell) ==
  (cfg.ionised_temperature (.) (One (-) cell.ionic_fraction))
    (+) (cfg.neutral_temperature (.) cell.ionic_fraction)

\* A cell the radiation loop computes a gas temperature for.
HasGas(cell) ==
  One \prec cfg.gamma /\ Zero \prec get_primitives_density(cell)

ShockHeated(cell) ==
  /\ HasGas(cell)
  /\ \/ Zero \prec cell.energy_term
     \/ cfg.shock_temperature \prec GasTemperature(cell)

\* C19: the radiation loop, with heating or cooling or both enabled, leaves
\* the energy component of the delta-conserved accumulator of a shock heated
\* cell (gamma > 1, density > 0, and a positive energy buffer or a gas
\* temperature above the shock temperature) unchanged, and with it every
\* hydrodynamic variable of the cell.
C19_ShockHeatedUnchanged ==
  [][(pc = "radiation" /\ RadiationEnabled) =>
       \A c \in Cells :
         ShockHeated(cells[c]) =>
           /\ cells'[c].delta_conserved[4] = cells[c].delta_conserved[4]
           /\ cells'[c] = [cells[c] EXCEPT
                             !.temperature = cells'[c].temperature]]_vars

\* The radiation loop has run with cooling enabled over a cell with mass
\* that is shock heated by its temperature alone and hotter than its
\* ionisation state asks for.
C19_ShockHeatedPassed ==
  /\ pc = "update"
  /\ cfg.do_radiative_cooling
  /\ \E c \in Cells :
       /\ ShockHeated(cells[c])
       /\ cells[c].energy_term = Zero
       /\ Zero \prec get_conserved_mass(cells[c])
       /\ cells[c].delta_conserved[4] = R(5)

\* u_fac', the energy per unit mass and temperature of a cell.
EnergyFactor(cell) ==
  (R(2) (.) cfg.u_conversion_factor) (/) (One (+) cell.ionic_fraction)

\* dE = m * u_fac' * (T_target - T_old) of a cell with gas.
EnergyChange(cell) ==
  (get_conserved_mass(cell) (.) EnergyFactor(cell))
    (.) (TargetTemperature(cell) (-) GasTemperature(cell))

\* 2 * u_fac' * (T_neutral - T_ionised) * m, the least dE cooling applies.
CoolingLimit(cell) ==
  ((R(2) (.) EnergyFactor(cell))
     (.) (cfg.neutral_temperature (-) cfg.ionised_temperature))
    (.) get_conserved_mass(cell)

\* What the radiation loop subtracts from the delta-conserved energy of a
\* cell that is not shock heated: dE by the heating branch when dE > 0, half
\* of the limited dE by the cooling branch when dE < 0.
EnergyApplied(cell) ==
  IF Zero \prec EnergyChange(cell)
    THEN IF cfg.do_radiative_heating THEN EnergyChange(cell) ELSE Zero
    ELSE IF EnergyChange(cell) \prec Zero /\ cfg.do_radiative_cooling
           THEN Half (.) RMax(EnergyChange(cell), CoolingLimit(cell))
           ELSE Zero

\* C20: for a cell with gas that is not shock heated, a dE < 0 is raised to
\* at least 2 * u_fac' * (T_neutral - T_ionised) * m and half of it is
\* subtracted from the delta-conserved energy when cooling is enabled, so
\* that the energy cooling removes is at most
\* u_fac' * (T_ionised - T_neutral) * m; a dE > 0 is subtracted when
\* heating is enabled; nothing else is applied: cooling does not apply a
\* positive dE and heating does not apply a negative one.
C20_CoolingLimited ==
  [][(pc = "radiation" /\ RadiationEnabled) =>
       \A c \in Cells :
         (HasGas(cells[c]) /\ ~ShockHeated(cells[c])) =>
           /\ cells'[c].delta_conserved[4] =
                cells[c].delta_conserved[4] (-) EnergyApplied(cells[c])
           /\ (cells'[c].delta_conserved[4] (-) cells[c].delta_conserved[4])
                \preceq ((EnergyFactor(cells[c])
                            (.) (cfg.ionised_temperature
                                   (-) cfg.neutral_temperature))
                           (.) get_conserved_mass(cells[c]))]_vars

\* The radiation loop has run with cooling enabled over a cell that is not
\* shock heated and whose dE lies below the limit.
C20_CoolingLimitActive ==
  /\ pc = "update"
  /\ cfg.do_radiative_cooling
  /\ \E c \in Cells :
       /\ HasGas(cells[c])
       /\ ~ShockHeated(cells[c])
       /\ EnergyChange(cells[c]) \prec CoolingLimit(cells[c])

(***************************************************************************)
(* do_hydro_step with workers that need not take every cell once: a cell   *)
(* may be left out of the flux pass or taken more than once, and the pass  *)
(* may end at any time.                                                    *)
(***************************************************************************)
\* The most often the workers take one cell in one flux pass.
MaxAccess == 2

\* The runs: adiabatic gas that no other subsystem feeds energy.
InitAccess ==
  /\ Init
  /\ cfg.gamma = R(2)
  /\ ~grid.feedback

\* A worker takes any cell.
worker_flux_job(c) ==
  /\ cells[c].access < MaxAccess
  /\ flux_job(c)

NextAccess ==
  \/ initialize_hydro_variables
  \/ do_hydro_step_gradients
  \/ do_hydro_step_predict
  \/ \E c \in Cells : worker_flux_job(c)
  \/ flux_pass_end
  \/ do_hydro_step_radiation
  \/ do_hydro_step_update
  \/ do_hydro_step_evolve
  \/ do_hydro_step_recover
  \/ do_hydro_step_set_grid_velocity

SpecAccess == InitAccess /\ [][NextAccess]_vars

\* The phases of a step that follow the flux pass.
AfterFluxPass == {"radiation", "update", "evolve", "recover"}

AccessError ==
  pc = "error" /\ error = "Access error in hydro flux exchange loop!"

\* C21: the flux pass is access-checked.  The access flags of all cells are
\* zero when the flux pass starts; a flux computation adds one to the access
\* flag of its cell and leaves those of the other cells alone; the pass ends
\* in the access error, from which the step does not go on, when a cell was
\* not taken exactly once, and in the radiation phase without an error when
\* every cell was taken exactly once.
C21_AccessChecked ==
  /\ [][(pc # "flux" /\ pc' = "flux") =>
          \A c \in Cells : cells'[c].access = 0]_vars
  /\ [][(pc = "flux" /\ pc' = "flux") =>
          \E c \in Cells :
            /\ cells'[c].access = cells[c].access + 1
            /\ \A d \in Cells \ {c} : cells'[d].access = cells[d].access]_vars
  /\ [][(pc = "flux" /\ pc' # "flux") =>
          IF \A c \in Cells : cells[c].access = 1
            THEN pc' = "radiation" /\ error' = "none"
            ELSE AccessError' /\ cells' = cells]_vars
  /\ [][pc # "error"]_vars

\* The flux pass has ended in the access error with one cell left out and
\* another taken twice.
C21_AccessErrorRaised ==
  /\ AccessError
  /\ \E c \in Cells : cells[c].access = 0
  /\ \E c \in Cells : cells[c].access = 2

(***************************************************************************)
(* do_hydro_step on uniform gas at rest in a box with reflective           *)
(* boundaries: no gravity, no energy sources, heating and cooling off.     *)
(* The gas is neutral, half ionised or ionised, at the neutral or at the   *)
(* ionised temperature, and slower or faster in its sound speed than the   *)
(* velocity limit.                                                         *)
(***************************************************************************)
RestRuns ==
  [gamma : GammaChoices, max_velocity : {One, R(8)},
   temperature : {NeutralTemperature, IonisedTemperature},
   neutral_fraction : {Zero, Half, One}]

InitRest ==
  /\ pc = "constructed"
  /\ error = "none"
  /\ step = NoStep
  /\ \E run \in RestRuns :
       /\ cfg = HydroIntegrator(run.gamma, FALSE, FALSE, "Rusanov",
                                NeutralTemperature, IonisedTemperature,
                                ShockTemperature, run.max_velocity,
                                [f \in Faces |-> "reflective"], "nullptr")
       /\ grid = [periodicity |-> [i \in Axes |-> FALSE],
                  gradients |-> "central",
                  feedback |-> FALSE]
       /\ \E cs \in {[c \in Cells |->
                        NewCell(One, run.temperature, run.neutral_fraction,
                                VZero, VZero)]} :
            cells = cs /\ hist = History(cs)

NextRest ==
  \/ initialize_hydro_variables
  \/ do_hydro_step_gradients
  \/ do_hydro_step_predict
  \/ \E c \in Cells : do_hydro_step_flux(c)
  \/ do_hydro_step_check_access
  \/ do_hydro_step_radiation
  \/ do_hydro_step_update
  \/ do_hydro_step_evolve
  \/ do_hydro_step_recover
  \/ do_hydro_step_set_grid_velocity

SpecRest == InitRest /\ [][NextRest]_vars

\* Uniform gas at rest, without gravity and without energy sources, in a
\* box with reflective boundaries, heating and cooling off.
UniformRest(cs) ==
  /\ \A f \in Faces : cfg.boundaries[f] = "HYDRO_BOUNDARY_REFLECTIVE"
  /\ ~cfg.do_radiative_heating
  /\ ~cfg.do_radiative_cooling
  /\ \A c \in Cells :
       /\ get_primitives_density(cs[c]) = get_primitives_density(cs[1])
       /\ get_primitives_pressure(cs[c]) = get_primitives_pressure(cs[1])
       /\ get_primitives_velocity(cs[c]) = VZero
       /\ cs[c].gravitational_acceleration = VZero
       /\ cs[c].energy_term = Zero
       /\ cs[c].energy_rate_term = Zero

\* The step has left the primitive and the conserved variables of every
\* cell as they were on entry.  The total energy is compared where the
\* Riemann solver returns an energy flux, that is for gamma > 1.
StepChangedNothing ==
  \A c \in Cells :
    /\ cells[c].primitives = hist.entry[c].primitives
    /\ get_conserved_mass(cells[c]) = get_conserved_mass(hist.entry[c])
    /\ get_conserved_momentum(cells[c])
         = get_conserved_momentum(hist.entry[c])
    /\ One \prec cfg.gamma =>
         get_conserved_total_energy(cells[c])
           = get_conserved_total_energy(hist.entry[c])

\* The sound speed of no cell exceeds the velocity limit.
SoundSpeedWithinLimit(cs) ==
  \A c \in Cells : get_soundspeed2(cfg, cs[c]) \preceq MaxVelocity2

\* The pressure of every cell is the pressure of isothermal gas of its
\* density, temperature and neutral fraction.
IsothermalPressure(cs) ==
  \A c \in Cells :
    get_primitives_pressure(cs[c])
      = ((cfg.P_conversion_factor (.) get_primitives_density(cs[c]))
           (.) cs[c].temperature)
          (/) (Half (.) (One (+) cs[c].ionic_fraction))

\* C22: uniform rest is a fixed point of do_hydro_step: a step entered with
\* uniform gas at rest returns with the primitive and the conserved
\* variables of every cell as they were on entry, and so any number of
\* steps leaves them at their initial values.
C22_UniformRestFixed ==
  (Returned /\ UniformRest(hist.entry)) => StepChangedNothing

\* C22, amended: uniform rest is a fixed point of do_hydro_step when the
\* sound speed of the gas does not exceed the velocity limit and, for
\* gamma = 1, the pressure is the isothermal pressure of the temperature and
\* the neutral fraction of the gas.
C22_SlowUniformRestFixed ==
  (/\ Returned
   /\ UniformRest(hist.entry)
   /\ SoundSpeedWithinLimit(hist.entry)
   /\ cfg.gamma = One => IsothermalPressure(hist.entry))
    => StepChangedNothing

\* A step has returned that was entered with uniform gas at rest whose
\* sound speed is within the velocity limit, for gamma > 1.
C22_SlowUniformRestStepped ==
  /\ Returned
  /\ One \prec cfg.gamma
  /\ UniformRest(hist.entry)
  /\ SoundSpeedWithinLimit(hist.entry)
  /\ Zero \prec get_primitives_pressure(hist.entry[1])

(***************************************************************************)
(* The state initialize_hydro_variables leaves: the conserved variables    *)
(* and the unit system.                                                    *)
(***************************************************************************)
\* initialize_hydro_variables has returned and no step has been taken.
Initialised == pc = "idle" /\ step.count = 0

\* The volume of a cell in the units of the run.
InternalVolume(c) ==
  convert_to_internal_units(cfg.hydro_units, "QUANTITY_VOLUME", get_volume(c))

\* m = rho V and momentum = m v.
MassAndMomentumSet(c) ==
  /\ get_conserved_mass(cells[c])
       = get_primitives_density(cells[c]) (.) InternalVolume(c)
  /\ get_conserved_momentum(cells[c])
       = VScale(get_conserved_mass(cells[c]),
                get_primitives_velocity(cells[c]))

\* momentum . v, twice the kinetic energy of the cell.
MomentumDotVelocity(c) ==
  dot_product(get_primitives_velocity(cells[c]),
              get_conserved_momentum(cells[c]))

\* E = V p / (gamma - 1) + momentum . v / 2.
AdiabaticEnergy(c) ==
  ((InternalVolume(c) (.) get_primitives_pressure(cells[c])) (.) cfg.gm1_inv)
    (+) (Half (.) MomentumDotVelocity(c))

\* C23 as stated: after initialisation every cell has m = rho V,
\* momentum = m v and E = V p / (gamma - 1) + momentum . v / 2 for
\* gamma > 1, E = momentum . v / 2 for gamma = 1.
C23_ConservedHalfKinetic ==
  Initialised =>
    \A c \in Cells :
      /\ MassAndMomentumSet(c)
      /\ get_conserved_total_energy(cells[c])
           = IF One \prec cfg.gamma
               THEN AdiabaticEnergy(c)
               ELSE Half (.) MomentumDotVelocity(c)

\* C23 amended: after initialisation every cell has m = rho V,
\* momentum = m v and E = V p / (gamma - 1) + momentum . v / 2 for
\* gamma > 1; for gamma = 1 the stored energy is the whole product
\* momentum . v.
C23_ConservedInitialised ==
  Initialised =>
    \A c \in Cells :
      /\ MassAndMomentumSet(c)
      /\ get_conserved_total_energy(cells[c])
           = IF One \prec cfg.gamma
               THEN AdiabaticEnergy(c)
               ELSE MomentumDotVelocity(c)

\* C23 witness: an isothermal run is initialised with a moving cell of
\* mass other than 1, whose stored energy is momentum . v and not zero.
C23_IsothermalMovingCell ==
  /\ Initialised
  /\ cfg.gamma = One
  /\ \E c \in Cells :
       /\ Zero \prec MomentumDotVelocity(c)
       /\ get_conserved_mass(cells[c]) # One
       /\ get_conserved_total_energy(cells[c]) = MomentumDotVelocity(c)

\* The mean of a primitive variable over the cells.
MeanPrimitive(i) ==
  RSum([c \in Cells |-> cells[c].primitives[i]], NumCells) (/) R(NumCells)

\* C24 as stated: the length scale of the unit system built by the
\* initialisation is (Lx + Ly + Lz) / 3, and the density and pressure
\* scales are the means over the cells (in the units of the run the mean
\* density and the mean pressure are 1).
C24_ScalesAreAverages ==
  Initialised =>
    /\ get_unit_SI_value(cfg.hydro_units, "QUANTITY_LENGTH")
         = ((BoxSides[0] (+) BoxSides[1]) (+) BoxSides[2]) (/) R(3)
    /\ MeanPrimitive(0) = One
    /\ MeanPrimitive(4) = One

\* C24, what the code does: the length scale is half the sum of the three
\* sides; the density and pressure scales are the means over the cells.
C24_LengthIsHalfSum ==
  Initialised =>
    /\ get_unit_SI_value(cfg.hydro_units, "QUANTITY_LENGTH")
         = Half (.) ((BoxSides[0] (+) BoxSides[1]) (+) BoxSides[2])
    /\ MeanPrimitive(0) = One
    /\ MeanPrimitive(4) = One

(***************************************************************************)
(* The order of the phases of do_hydro_step.                               *)
(***************************************************************************)
\* The phases in the order of the code: each pair is a phase about to
\* run and the one that runs after it.
PhaseOrder ==
  {<<"constructed", "idle">>, <<"idle", "predict">>, <<"predict", "flux">>,
   <<"flux", "radiation">>, <<"radiation", "update">>,
   <<"update", "evolve">>, <<"evolve", "recover">>,
   <<"recover", "grid_velocity">>, <<"grid_velocity", "idle">>}

\* The cells the flux computation has run for.
FluxDone == {c \in Cells : cells[c].access > 0}

\* The energy buffers of the cells are as they were on entry of the step.
EnergyBuffersAsOnEntry ==
  \A c \in Cells :
    /\ cells[c].energy_term = hist.entry[c].energy_term
    /\ cells[c].energy_rate_term = hist.entry[c].energy_rate_term

DensityMatchesMass(c) ==
  get_primitives_density(cells[c]) (.) InternalVolume(c)
    = get_conserved_mass(cells[c])

\* The primitive velocity of the cell times its mass is its momentum.
VelocityMatchesMomentum(c) ==
  VScale(get_conserved_mass(cells[c]), get_primitives_velocity(cells[c]))
    = get_conserved_momentum(cells[c])

\* C27: after every step the primitive density of every cell times its
\* volume is its conserved mass and, when the mass is positive, its
\* primitive velocity times its mass is its conserved momentum.
C27_PrimitivesMatchConserved ==
  Returned =>
    \A c \in Cells :
      /\ DensityMatchesMass(c)
      /\ Zero \prec get_conserved_mass(cells[c]) => VelocityMatchesMomentum(c)

\* C27, the first half alone: the primitive density times the volume is
\* the conserved mass.
C27_DensityAgrees ==
  Returned => \A c \in Cells : DensityMatchesMass(c)

\* C27, the second half alone: the primitive velocity of a cell with mass
\* and a density that agrees with it times the mass is the momentum.
C27_VelocityAgrees ==
  Returned =>
    \A c \in Cells :
      (Zero \prec get_conserved_mass(cells[c]) /\ DensityMatchesMass(c))
        => VelocityMatchesMomentum(c)

(***************************************************************************)
(* RescaledICHydroMask: a sphere in which the hydrodynamic variables are   *)
(* reset.  The grid of the model is a row of unit cubes along x, cut into  *)
(* subgrids of equal size; cell c has its midpoint at x = c - 1/2.  In     *)
(* this part cfg is the mask, cells are the cells of the grid, step is the *)
(* restart file and hist records what the last call did.                   *)
(***************************************************************************)
NumSubgrids == 2

SubgridSize == 3

\* The indices of the subgrids in the subgrid list.
Subgrids == 0..(NumSubgrids - 1)

MaskCells == 1..(NumSubgrids * SubgridSize)

first_cell(index) == index * SubgridSize + 1

last_cell(index) == (index + 1) * SubgridSize

DBL_MAX == <<1048576, 1>>

\* std::sqrt of a double: the root itself where it is rational, otherwise
\* the root rounded down to a multiple of 1/SqrtResolution.
SqrtResolution == 16

sqrt_rounded(a) ==
  <<ISqrtBetween((a[1] * SqrtResolution * SqrtResolution) \div a[2], 0, 46340),
    SqrtResolution>>

IsSquare(n) == \E r \in 0..n : r * r = n

sqrt(a) ==
  IF IsSquare(a[1]) /\ IsSquare(a[2])
    THEN RSqrt(a)
    ELSE Rat(sqrt_rounded(a)[1], sqrt_rounded(a)[2])

\* CoordinateVector<>(single_value): all three components get the value.
CoordinateVector(single_value) == Vec(single_value, single_value, single_value)

\* The constructor.
RescaledICHydroMask(center, radius, scale_factor_density, scale_factor_velocity, scale_factor_pressure, delta_t) ==
  [center |-> center,
   radius2 |-> radius (.) radius,
   scale_factors |-> (0 :> scale_factor_density)
                       @@ (1 :> scale_factor_velocity)
                       @@ (2 :> scale_factor_pressure),
   delta_t |-> delta_t,
   snap_n |-> 0,
   mask_density |-> DBL_MAX,
   mask_velocity |-> DBL_MAX,
   mask_pressure |-> DBL_MAX,
   mask_velocities |-> <<>>,
   subgrid_offsets |-> <<>>]

is_inside(mask, position) ==
  norm2(VSub(position, mask.center)) \prec mask.radius2

\* _subgrid_offsets[index] = value.
set_offset(offsets, index, value) ==
  [k \in (DOMAIN offsets) \cup {index} |->
     IF k = index THEN value ELSE offsets[k]]

\* _subgrid_offsets[index] as apply_mask reads it: a key that is not in the
\* map is inserted with the value 0.
get_offset(offsets, index) ==
  IF index \in DOMAIN offsets THEN offsets[index] ELSE 0

\* The body of the loop of initialize_mask(index, subgrid) for a cell
\* inside the mask whose speed is v.
initialize_inside(mask, cell, v) ==
  [mask EXCEPT
     !.mask_density = RMin(@, get_primitives_density(cell)),
     !.mask_velocity = RMin(@, v),
     !.mask_pressure = RMin(@, get_primitives_pressure(cell)),
     !.mask_velocities = Append(@, CoordinateVector(v))]

\* The loop of initialize_mask(index, subgrid) from cell c on.
RECURSIVE initialize_cells(_, _, _, _)
initialize_cells(mask, cs, c, last) ==
  IF c > last
    THEN mask
    ELSE initialize_cells(
           IF is_inside(mask, cs[c].midpoint)
             THEN initialize_inside(mask, cs[c],
                                    norm(get_primitives_velocity(cs[c])))
             ELSE mask,
           cs, c + 1, last)

\* initialize_mask(index, subgrid).
initialize_subgrid(mask, cs, index) ==
  initialize_cells(
    [mask EXCEPT !.subgrid_offsets =
                   set_offset(@, index, Len(mask.mask_velocities))],
    cs, first_cell(index), last_cell(index))

\* The variables of a cell inside the mask are set: A is the ratio of the
\* thermal energy to the pressure the cell had.
masked_cell(cell, A, density, velocity, pressure, momentum) ==
  [cell EXCEPT
     !.primitives = Five(density, velocity, pressure),
     !.conserved =
       Five(density (.) cell.volume, momentum,
            (A (.) pressure) (+) (Half (.) dot_product(velocity, momentum))),
     !.ionic_fraction = Zero]

\* The body of the loops of apply_mask for a cell inside the mask, given
\* the density, velocity and pressure of the mask.
mask_cell(cell, density, velocity, pressure) ==
  masked_cell(
    cell,
    (get_conserved_total_energy(cell)
       (-) ((Half (.) get_primitives_density(cell))
              (.) norm2(get_primitives_velocity(cell))))
      (/) get_primitives_pressure(cell),
    density, velocity, pressure,
    VScale(density (.) cell.volume, velocity))

\* The velocity apply_mask(index, subgrid, ...) gives a cell whose mask
\* velocity is v, of norm squared vnrm2.
mask_velocity_of(mask, v, vnrm2) ==
  IF Zero \prec vnrm2
    THEN VScale((mask.mask_velocity (.) mask.scale_factors[1])
                  (/) sqrt(vnrm2), v)
    ELSE VZero

\* The body of the loop of apply_mask(index, subgrid, ...) for a cell
\* inside the mask.
apply_inside(mask, cell, cell_index) ==
  mask_cell(cell,
            mask.mask_density (.) mask.scale_factors[0],
            mask_velocity_of(mask, mask.mask_velocities[cell_index + 1],
                             norm2(mask.mask_velocities[cell_index + 1])),
            mask.mask_pressure (.) mask.scale_factors[2])

\* The loop with cell_index running over all cells of the subgrid, inside
\* the mask or not.
RECURSIVE apply_cells_counting_all(_, _, _, _, _, _)
apply_cells_counting_all(mask, cs, used, cell_index, c, last) ==
  IF c > last
    THEN [cells |-> cs, used |-> used, cell_index |-> cell_index]
    ELSE IF is_inside(mask, cs[c].midpoint)
           /\ cell_index < Len(mask.mask_velocities)
      THEN apply_cells_counting_all(
             mask, [cs EXCEPT ![c] = apply_inside(mask, cs[c], cell_index)],
             [used EXCEPT ![c] = cell_index], cell_index + 1, c + 1, last)
      ELSE apply_cells_counting_all(mask, cs, used, cell_index + 1, c + 1,
                                    last)

\* The loop of apply_mask(index, subgrid, ...) from cell c on: the cells,
\* the value of cell_index each cell inside the mask was given, and
\* cell_index.
RECURSIVE apply_cells(_, _, _, _, _, _)
apply_cells(mask, cs, used, cell_index, c, last) ==
  IF c > last
    THEN [cells |-> cs, used |-> used, cell_index |-> cell_index]
    ELSE IF is_inside(mask, cs[c].midpoint)
      THEN apply_cells(mask,
                       [cs EXCEPT ![c] = apply_inside(mask, cs[c], cell_index)],
                       [used EXCEPT ![c] = cell_index],
                       cell_index + 1, c + 1, last)
      ELSE apply_cells(mask, cs, used, cell_index, c + 1, last)

\* No cell has been given a mask velocity.
NotUsed == [c \in MaskCells |-> -1]

\* apply_mask(index, subgrid, actual_timestep, current_time).
apply_subgrid(mask, cs, index) ==
  apply_cells(mask, cs, NotUsed, get_offset(mask.subgrid_offsets, index),
              first_cell(index), last_cell(index))

\* The quotient of two doubles where 0 / 0 may occur: not a number.
quotient(a, b) == IF a = Zero /\ b = Zero THEN NaN ELSE a (/) b

\* The first loop of initialize_mask(grid) from cell c on: the minimum
\* density, speed and pressure of the cells inside the mask.
RECURSIVE minimum_inside(_, _, _, _, _, _)
minimum_inside(mask, cs, c, min_rho, min_v, min_P) ==
  IF c > NumSubgrids * SubgridSize
    THEN [rho |-> min_rho (.) mask.scale_factors[0],
          v |-> min_v (.) mask.scale_factors[1],
          P |-> min_P (.) mask.scale_factors[2]]
    ELSE IF is_inside(mask, cs[c].midpoint)
      THEN minimum_inside(mask, cs, c + 1,
                          RMin(min_rho, get_primitives_density(cs[c])),
                          RMin(min_v, norm(get_primitives_velocity(cs[c]))),
                          RMin(min_P, get_primitives_pressure(cs[c])))
      ELSE minimum_inside(mask, cs, c + 1, min_rho, min_v, min_P)

\* The second loop of initialize_mask(grid) from cell c on: the velocity of
\* each cell inside the mask, scaled to the speed min_v.
RECURSIVE scaled_velocities(_, _, _, _, _)
scaled_velocities(mask, cs, c, min_v, velocities) ==
  IF c > NumSubgrids * SubgridSize
    THEN velocities
    ELSE scaled_velocities(
           mask, cs, c + 1, min_v,
           IF is_inside(mask, cs[c].midpoint)
             THEN Append(velocities,
                         VScale(quotient(min_v,
                                         norm(get_primitives_velocity(cs[c]))),
                                get_primitives_velocity(cs[c])))
             ELSE velocities)

\* initialize_mask(grid) from the end of the first loop on.
initialize_scaled(mask, cs, min) ==
  [mask EXCEPT
     !.mask_density = min.rho,
     !.mask_pressure = min.P,
     !.mask_velocities = scaled_velocities(mask, cs, 1, min.v, @)]

\* initialize_mask(grid).
initialize_grid(mask, cs) ==
  initialize_scaled(mask, cs,
                    minimum_inside(mask, cs, 1, mask.mask_density,
                                   mask.mask_velocity, mask.mask_pressure))

\* The loop of apply_mask(grid, ...) from cell c on.
RECURSIVE apply_grid_cells(_, _, _, _)
apply_grid_cells(mask, cs, index, c) ==
  IF c > NumSubgrids * SubgridSize
    THEN cs
    ELSE IF is_inside(mask, cs[c].midpoint)
      THEN apply_grid_cells(
             mask,
             [cs EXCEPT ![c] = mask_cell(cs[c], mask.mask_density,
                                         mask.mask_velocities[index + 1],
                                         mask.mask_pressure)],
             index + 1, c + 1)
      ELSE apply_grid_cells(mask, cs, index, c + 1)

\* apply_mask(grid, ...) opens a mass accretion file and counts it.
snapshot_due(mask, current_time) ==
  /\ Zero \prec mask.delta_t
  /\ (R(mask.snap_n) (.) mask.delta_t) \preceq current_time

(***************************************************************************)
(* The restart file: the values written, each with the type it was written *)
(* as.  All types are eight bytes wide.                                    *)
(***************************************************************************)
Double(x) == [type |-> "double", value |-> x]

UInt(n) == [type |-> "uint_fast32_t", value |-> n]

Size(n) == [type |-> "size_type", value |-> n]

\* CoordinateVector<>::write_restart_file.
write_vector(v) == <<Double(v[0]), Double(v[1]), Double(v[2])>>

RECURSIVE write_velocities(_, _)
write_velocities(velocities, i) ==
  IF i > Len(velocities)
    THEN <<>>
    ELSE write_vector(velocities[i]) \o write_velocities(velocities, i + 1)

\* The entries of the map from key on, in the order of the keys.
RECURSIVE write_offsets(_, _)
write_offsets(offsets, key) ==
  IF key >= NumSubgrids
    THEN <<>>
    ELSE (IF key \in DOMAIN offsets
            THEN <<UInt(key), UInt(offsets[key])>>
            ELSE <<>>) \o write_offsets(offsets, key + 1)

write_restart_file(mask) ==
  write_vector(mask.center)
    \o <<Double(mask.radius2), Double(mask.scale_factors[0]),
         Double(mask.scale_factors[1]), Double(mask.scale_factors[2]),
         Double(mask.delta_t), UInt(mask.snap_n), Double(mask.mask_density),
         Double(mask.mask_pressure), Size(Len(mask.mask_velocities))>>
    \o write_velocities(mask.mask_velocities, 1)
    \o <<Size(Cardinality(DOMAIN mask.subgrid_offsets))>>
    \o write_offsets(mask.subgrid_offsets, 0)

\* restart_reader.read< double >(): the next eight bytes as a double.
\* The bytes of an unsigned integer below 2^52 are a subnormal double,
\* the integer times 2^-1074; the model keeps it as 0.
read_double(item) ==
  IF item.type = "double" THEN item.value ELSE Zero

\* The conversion of a double to uint_fast32_t: the fraction is dropped.
uint_of_double(x) == x[1] \div x[2]

\* restart_reader.read< size_type >() and read< uint_fast32_t >(): both are
\* unsigned integers of eight bytes.
read_unsigned(item) == item.value

\* CoordinateVector<>(restart_reader) for the three values from position i.
read_vector(file, i) ==
  Vec(read_double(file[i]), read_double(file[i + 1]), read_double(file[i + 2]))

\* The loop that reads the map, from entry i on: position is that of the
\* next value in the file.
RECURSIVE read_offsets(_, _, _, _, _)
read_offsets(file, position, i, msize, offsets) ==
  IF i >= msize
    THEN offsets
    ELSE read_offsets(file, position + 2, i + 1, msize,
                      set_offset(offsets, read_unsigned(file[position]),
                                 read_unsigned(file[position + 1])))

\* The restart constructor from the size of _mask_velocities on.
restart_velocities(file, mask, size) ==
  [mask EXCEPT
     !.mask_velocities = [i \in 1..size |-> read_vector(file, 10 + 3 * i)],
     !.subgrid_offsets =
       read_offsets(file, 14 + 3 * size, 0,
                    read_unsigned(file[13 + 3 * size]), <<>>)]

\* The restart constructor: the members are read in the order of their
\* declaration; _mask_velocity has no initialiser and holds whatever the
\* memory held.
restart(file, indeterminate) ==
  restart_velocities(
    file,
    [center |-> read_vector(file, 1),
     radius2 |-> read_double(file[4]),
     scale_factors |-> (0 :> read_double(file[5]))
                         @@ (1 :> read_double(file[6]))
                         @@ (2 :> read_double(file[7])),
     delta_t |-> read_double(file[8]),
     snap_n |-> uint_of_double(read_double(file[9])),
     mask_density |-> read_double(file[10]),
     mask_velocity |-> indeterminate,
     mask_pressure |-> read_double(file[11]),
     mask_velocities |-> <<>>,
     subgrid_offsets |-> <<>>],
    read_unsigned(file[12]))

(***************************************************************************)
(* The runs of the mask: the mask is constructed, initialised on the grid  *)
(* or subgrid by subgrid, applied, written to a restart file and read      *)
(* back from it.                                                           *)
(***************************************************************************)
MaxMaskSteps == 2

MaskCenters == {Vec(R(3), Zero, Zero), Vec(Rat(5, 2), Zero, Zero)}

MaskRadii == {One, R(2)}

\* The gas of the grid: at rest, or streaming with a speed that grows
\* along the row.
MaskProfiles == {"rest", "stream"}

MaskPaths == {"grid", "subgrid"}

\* The values the uninitialised _mask_velocity of a restarted mask may hold.
IndeterminateDoubles == {Zero, R(7)}

MaskVelocity(profile, c) ==
  IF profile = "rest" THEN VZero ELSE Vec(R(3 * c), R(4 * c), Zero)

\* Cell c of the grid: a unit cube of gas with gamma = 2, half neutral.
MaskCell(profile, c) ==
  [midpoint |-> Vec(R(c) (-) Half, Zero, Zero),
   volume |-> One,
   primitives |-> Five(R(c), MaskVelocity(profile, c), R(c + 1)),
   conserved |->
     Five(R(c), VScale(R(c), MaskVelocity(profile, c)),
          R(c + 1) (+) ((Half (.) R(c)) (.) norm2(MaskVelocity(profile, c)))),
   ionic_fraction |-> Half]

NoCall == [before |-> <<>>, used |-> NotUsed, index |-> -1, cell_index |-> 0,
           offset |-> 0, written |-> None]

InitMask ==
  /\ pc = "setup"
  /\ error = "none"
  /\ step = <<>>
  /\ hist = NoCall
  /\ \E center \in MaskCenters, radius \in MaskRadii, delta_t \in {Zero, One} :
       cfg = RescaledICHydroMask(center, radius, Rat(1, 100), R(2),
                                 Rat(1, 100), delta_t)
  /\ \E profile \in MaskProfiles :
       cells = [c \in MaskCells |-> MaskCell(profile, c)]
  /\ \E path \in MaskPaths :
       grid = [path |-> path, initialised |-> {}, applied |-> {}, steps |-> 0,
               restarted |-> FALSE]

\* initialize_mask(grid).
initialize_mask_grid ==
  /\ pc = "setup"
  /\ grid.path = "grid"
  /\ cfg' = initialize_grid(cfg, cells)
  /\ pc' = "run"
  /\ UNCHANGED <<error, grid, cells, step, hist>>

\* initialize_mask(index, subgrid), called in serial for every subgrid.
initialize_mask(index) ==
  /\ pc = "setup"
  /\ grid.path = "subgrid"
  /\ index \notin grid.initialised
  /\ cfg' = initialize_subgrid(cfg, cells, index)
  /\ grid' = [grid EXCEPT !.initialised = @ \cup {index}]
  /\ pc' = IF grid'.initialised = Subgrids THEN "run" ELSE "setup"
  /\ UNCHANGED <<error, cells, step, hist>>

\* apply_mask(grid, actual_timestep, current_time).
apply_mask_grid(current_time) ==
  /\ pc = "run"
  /\ grid.path = "grid"
  /\ grid.steps < MaxMaskSteps
  /\ cfg' = IF snapshot_due(cfg, current_time)
              THEN [cfg EXCEPT !.snap_n = @ + 1]
              ELSE cfg
  /\ cells' = apply_grid_cells(cfg, cells, 0, 1)
  /\ grid' = [grid EXCEPT !.steps = @ + 1]
  /\ hist' = [hist EXCEPT !.before = cells, !.index = -1]
  /\ UNCHANGED <<pc, error, step>>

\* apply_mask(index, subgrid, actual_timestep, current_time), called once
\* for every subgrid, in any order.
apply_mask(index) ==
  /\ pc = "run"
  /\ grid.path = "subgrid"
  /\ index \notin grid.applied
  /\ \E done \in {apply_subgrid(cfg, cells, index)} :
       /\ cells' = done.cells
       /\ hist' = [hist EXCEPT !.before = cells, !.used = done.used,
                                !.index = index,
                                !.cell_index = done.cell_index,
                                !.offset = cfg.subgrid_offsets[index]]
  /\ grid' = [grid EXCEPT !.applied = @ \cup {index}]
  /\ UNCHANGED <<pc, error, cfg, step>>

\* write_restart_file(restart_writer).
write_restart ==
  /\ pc = "run"
  /\ step = <<>>
  /\ step' = write_restart_file(cfg)
  /\ hist' = [hist EXCEPT !.written = cfg]
  /\ UNCHANGED <<pc, error, cfg, grid, cells>>

\* The program is restarted: the mask is the one the restart constructor
\* makes of the file.
restart_mask ==
  /\ pc = "run"
  /\ step # <<>>
  /\ ~grid.restarted
  /\ \E indeterminate \in IndeterminateDoubles :
       cfg' = restart(step, indeterminate)
  /\ grid' = [grid EXCEPT !.restarted = TRUE]
  /\ UNCHANGED <<pc, error, cells, step, hist>>

NextMask ==
  \/ initialize_mask_grid
  \/ \E index \in Subgrids : initialize_mask(index)
  \/ \E current_time \in {Zero, One} : apply_mask_grid(current_time)
  \/ \E index \in Subgrids : apply_mask(index)
  \/ write_restart
  \/ restart_mask

SpecMask == InitMask /\ [][NextMask]_vars

(***************************************************************************)
(* Claims about the mask.                                                  *)
(***************************************************************************)
\* Cell c lies inside the mask.
Masked(c) == is_inside(cfg, cells[c].midpoint)

CellsOf(index) == first_cell(index)..last_cell(index)

\* The number of cells of its subgrid inside the mask that come before
\* cell c.
MaskedBefore(index, c) ==
  Cardinality({d \in CellsOf(index) : d < c /\ Masked(d)})

\* This step is a call of apply_mask(index, subgrid, ...).
AppliedTo(index) ==
  index \notin grid.applied /\ grid'.applied = grid.applied \cup {index}

\* C25: a call of apply_mask for a subgrid changes no cell outside the
\* mask (and no cell of another subgrid): primitives, conserved variables
\* and neutral fraction are as before; the cell_index of the k-th cell
\* inside the mask is the offset initialize_mask recorded for the subgrid
\* plus k - 1, it points at the mask velocity initialize_mask stored for
\* that cell, and it ends at the offset plus the number of cells inside.
C25_OnlyMaskedCellsChanged ==
  [][\A index \in Subgrids :
       AppliedTo(index) =>
         /\ \A c \in MaskCells :
              (c \notin CellsOf(index) \/ ~Masked(c))
                => /\ cells'[c] = cells[c]
                   /\ hist'.used[c] = -1
         /\ \A c \in CellsOf(index) :
              Masked(c)
                => /\ hist'.used[c]
                        = cfg.subgrid_offsets[index] + MaskedBefore(index, c)
                   /\ cfg.mask_velocities[hist'.used[c] + 1]
                        = CoordinateVector(
                            norm(get_primitives_velocity(cells[c])))
         /\ hist'.cell_index
              = cfg.subgrid_offsets[index]
                  + MaskedBefore(index, last_cell(index) + 1)]_vars

\* C25 witness: apply_mask has run for a subgrid whose offset is not 0 and
\* that has a cell inside the mask, which it changed, and a cell outside,
\* which it left as it was.
C25_MaskAppliedToPart ==
  /\ hist.index \in Subgrids
  /\ hist.offset > 0
  /\ \E c, d \in CellsOf(hist.index) :
       /\ hist.used[c] >= 0
       /\ cells[c] # hist.before[c]
       /\ hist.used[d] = -1
       /\ cells[d] = hist.before[d]

\* C28: a mask made by the restart constructor of the file that
\* write_restart_file wrote has the state the mask had when it was
\* written, field by field.
C28_RestartRestoresMask ==
  [][(~grid.restarted /\ grid'.restarted) => cfg' = hist.written]_vars

\* C28, the fields that do come back: all but the reference velocity and
\* the snapshot counter.
C28_RestartRestoresOthers ==
  [][(~grid.restarted /\ grid'.restarted)
       => [cfg' EXCEPT !.mask_velocity = 0, !.snap_n = 0]
            = [hist.written EXCEPT !.mask_velocity = 0, !.snap_n = 0]]_vars

(***************************************************************************)
(* NewVoronoiCellConstructor: the permutations of the vertices of a        *)
(* tetrahedron.  In this part step holds the arguments and the result of   *)
(* the function named in grid.                                             *)
(***************************************************************************)
\* The values of an unsigned char.
UCHAR_MAX == 255

unsigned_char(i) == i % (UCHAR_MAX + 1)

\* The indices of the vertices of a tetrahedron.
Vertices == 0..3

\* The middle branch of positive_permutation with the comparison the other
\* way round.
positive_permutation_reversed(a, b, c, d) ==
  IF (a + 1) % 4 = b
    THEN c % 2 = 0
    ELSE IF (a + 2) % 4 = b
      THEN b * c + a * d < b * d + a * c
      ELSE d % 2 = 0

positive_permutation(a, b, c, d) ==
  IF (a + 1) % 4 = b
    THEN c % 2 = 0
    ELSE IF (a + 2) % 4 = b
      THEN b * c + a * d > b * d + a * c
      ELSE d % 2 = 0

\* get_positive_permutation from the test of the permutation on.
complete_permutation(v) ==
  IF ~positive_permutation(v[0], v[1], v[2], v[3])
    THEN [v EXCEPT ![2] = v[3], ![3] = v[2]]
    ELSE v

\* get_positive_permutation from the fourth element on.
complete_fourth(v) ==
  complete_permutation(
    [v EXCEPT ![3] = unsigned_char(6 - v[0] - v[1] - v[2] + UCHAR_MAX + 1)])

\* get_positive_permutation from the second assignment to v[2] on.
complete_third(v) ==
  complete_fourth(
    [v EXCEPT ![2] = unsigned_char((v[2] + (IF v[2] = v[1] THEN 1 ELSE 0)) % 4)])

get_positive_permutation(v) ==
  complete_third([v EXCEPT ![2] = unsigned_char((v[0] + 1) % 4)])

InitPermutation ==
  /\ pc = "call"
  /\ error = "none"
  /\ cfg = None
  /\ cells = None
  /\ hist = None
  /\ \E function \in {"positive_permutation", "get_positive_permutation"} :
       grid = [function |-> function]
  /\ \E v \in [Vertices -> Vertices] : step = [v |-> v, result |-> None]

call_positive_permutation ==
  /\ pc = "call"
  /\ grid.function = "positive_permutation"
  /\ step' = [step EXCEPT
                !.result = positive_permutation(step.v[0], step.v[1],
                                                step.v[2], step.v[3])]
  /\ pc' = "returned"
  /\ UNCHANGED <<error, cfg, grid, cells, hist>>

\* get_positive_permutation(v): the array is completed in place.
call_get_positive_permutation ==
  /\ pc = "call"
  /\ grid.function = "get_positive_permutation"
  /\ step' = [step EXCEPT !.result = get_positive_permutation(step.v)]
  /\ pc' = "returned"
  /\ UNCHANGED <<error, cfg, grid, cells, hist>>

NextPermutation ==
  \/ call_positive_permutation
  \/ call_get_positive_permutation

SpecPermutation == InitPermutation /\ [][NextPermutation]_vars

\* v is a permutation of 0123.
IsPermutation(v) == {v[i] : i \in Vertices} = Vertices

\* The pairs of positions of v that are out of order.
Inversions(v) ==
  {p \in Vertices \X Vertices : p[1] < p[2] /\ v[p[1]] > v[p[2]]}

\* v is 0123 after an even number of transpositions.
IsEven(v) == IsPermutation(v) /\ Cardinality(Inversions(v)) % 2 = 0

\* C29: for every permutation abcd of 0123 positive_permutation(a, b, c, d)
\* is true exactly if the permutation is even; and get_positive_permutation
\* completes two different vertices to an even permutation that starts
\* with them.
C29_PositiveIsEven ==
  pc = "returned" =>
    /\ (grid.function = "positive_permutation" /\ IsPermutation(step.v))
         => (step.result <=> IsEven(step.v))
    /\ (grid.function = "get_positive_permutation" /\ step.v[0] # step.v[1])
         => /\ IsEven(step.result)
            /\ step.result[0] = step.v[0]
            /\ step.result[1] = step.v[1]

\* C29 witness: positive_permutation has returned true for 2013, an even
\* permutation for which it compares the two sums of products.
C29_EvenInMiddleBranch ==
  /\ pc = "returned"
  /\ grid.function = "positive_permutation"
  /\ step.v = (0 :> 2) @@ (1 :> 0) @@ (2 :> 1) @@ (3 :> 3)
  /\ IsEven(step.v)
  /\ step.result = TRUE

(***************************************************************************)
(* NewVoronoiCellConstructor::create_new_tetrahedra(indices, number), one  *)
(* action per iteration of its loop.  In this part cfg holds the members   *)
(* of the constructor, step the locals of the call and hist what the call  *)
(* started from.                                                           *)
(***************************************************************************)
\* The loop is followed until new_size reaches this size.
MaxNewSize == 300

\* The numbers of tetrahedra asked for.
TetrahedraNumbers == {0, 1, 3, UCHAR_MAX, UCHAR_MAX + 1, 2 * UCHAR_MAX}

\* indices[i] = value.
store(indices, i, value) ==
  [k \in (DOMAIN indices) \cup {i} |-> IF k = i THEN value ELSE indices[k]]

InitTetrahedra ==
  /\ pc = "loop"
  /\ error = "none"
  /\ grid = None
  /\ cells = None
  /\ \E free_size \in {0, 2} :
       /\ cfg = [tetrahedra_size |-> 4, free_tetrahedra |-> <<1, 3>>,
                 free_size |-> free_size]
       /\ hist = [free_size |-> free_size, tetrahedra_size |-> 4,
                  wrapped |-> FALSE]
  /\ \E number \in TetrahedraNumbers :
       step = [number |-> number, i |-> 0, new_size |-> 4, indices |-> <<>>]

\* One iteration of the loop: i is an unsigned char.
create_new_tetrahedra_loop ==
  /\ pc = "loop"
  /\ step.i < step.number
  /\ step.new_size < MaxNewSize
  /\ IF cfg.free_size > 0
       THEN /\ step' = [step EXCEPT
                          !.indices = store(@, step.i,
                                            cfg.free_tetrahedra[cfg.free_size]),
                          !.i = unsigned_char(@ + 1)]
            /\ cfg' = [cfg EXCEPT !.free_size = @ - 1]
       ELSE /\ step' = [step EXCEPT
                          !.indices = store(@, step.i, step.new_size),
                          !.new_size = @ + 1,
                          !.i = unsigned_char(@ + 1)]
            /\ cfg' = cfg
  /\ hist' = [hist EXCEPT !.wrapped = @ \/ step.i = UCHAR_MAX]
  /\ UNCHANGED <<pc, error, grid, cells>>

\* The loop is left and the function returns.
create_new_tetrahedra_return ==
  /\ pc = "loop"
  /\ ~(step.i < step.number)
  /\ cfg' = [cfg EXCEPT !.tetrahedra_size = step.new_size]
  /\ pc' = "returned"
  /\ UNCHANGED <<error, grid, cells, step, hist>>

NextTetrahedra ==
  \/ create_new_tetrahedra_loop
  \/ create_new_tetrahedra_return

SpecTetrahedra == InitTetrahedra /\ [][NextTetrahedra]_vars

\* The call runs as long as it can.
FairTetrahedra == SpecTetrahedra /\ WF_vars(NextTetrahedra)

\* The call has filled indices[0] .. indices[number - 1] with different
\* indices: what there was in the free list, from its end, and then the
\* next indices of the tetrahedra array.
Filled ==
  /\ DOMAIN step.indices = 0..(step.number - 1)
  /\ \A j, k \in DOMAIN step.indices :
       j # k => step.indices[j] # step.indices[k]
  /\ \A j \in DOMAIN step.indices :
       step.indices[j]
         = IF j < hist.free_size
             THEN cfg.free_tetrahedra[hist.free_size - j]
             ELSE hist.tetrahedra_size + (j - hist.free_size)
  /\ cfg.tetrahedra_size - hist.tetrahedra_size
       = IF step.number > hist.free_size
           THEN step.number - hist.free_size ELSE 0

\* C30: create_new_tetrahedra(indices, number) returns for every number up
\* to 2 * UCHAR_MAX, with exactly number different indices filled in, the
\* free list used first; its loop counter never wraps around.
C30_TerminatesAndFills ==
  /\ <>(pc = "returned")
  /\ [](pc = "returned" => Filled)
  /\ [](~hist.wrapped)

\* C30 for the numbers an unsigned char can count to: the call returns
\* with the indices filled in.
C30_SmallNumbersFilled ==
  /\ (step.number <= UCHAR_MAX) ~> (pc = "returned")
  /\ [](pc = "returned" => Filled /\ step.number <= UCHAR_MAX)

\* A call for more than UCHAR_MAX tetrahedra whose loop counter has
\* wrapped around: it is back below number and the loop goes on.
LoopWrapped ==
  /\ pc = "loop"
  /\ hist.wrapped
  /\ step.i < step.number
====
